---- MODULE Spec2Model ----
(***************************************************************************)
(* Model of devcontainers-cli-rs: the lifecycle planner                    *)
(* (LifecyclePlan::for_up), the lifecycle executor                         *)
(* (LifecycleExecutor::execute, generic over a Provider) and the docker   *)
(* provider's reconciliation of networks and volumes against the engine.   *)
(*                                                                         *)
(* Spec        one run of LifecycleExecutor::execute over a provider whose *)
(*             operations may each succeed or fail.                        *)
(* DockerSpec  DockerProvider::ensure_networks / ensure_volumes called     *)
(*             repeatedly against a docker engine.                         *)
(***************************************************************************)
EXTENDS Integers, Sequences, FiniteSets, TLC

\* ------------------------------------------------------------------ bounds

\* Number of distinct command names a named-parallel hook map may use.
MaxNames == 2
\* Longest stderr (in tokens) an exec result carries.
MaxStderrLen == 2
\* Longest list of networks / volumes a ProviderPreparation carries.
MaxResources == 2
\* The longest project name given to sanitize_name, in characters.
MaxNameLen == 3
\* The longest forward-port string, in characters.
MaxPortLen == 6
\* The number of containers the engine is asked to create in one run.
MaxCreated == 2
\* The longest forwardPorts list of a document given to resolve.
MaxPorts == 2
\* The longest list of violations the schema validator reports.
MaxViolations == 2
\* The longest workspaceFolder value of a document, in tokens.
MaxFolderLen == 3

\* ------------------------------------------------------------ basic values

\* Option<T>
None == [some |-> FALSE]
Some(v) == [some |-> TRUE, value |-> v]

Range(s) == {s[i] : i \in 1..Len(s)}

IsPrefix(s, t) == Len(s) <= Len(t) /\ SubSeq(t, 1, Len(s)) = s

\* Sequences over S of length at most n.
SeqUpTo(S, n) == UNION {[1..k -> S] : k \in 0..n}

\* ------------------------------------------------------------ config types

\* Command names, listed in ascending String order (the order in which a
\* BTreeMap<String, _> iterates).
AllNames == <<"a", "b", "c", "d">>
Names == {AllNames[i] : i \in 1..MaxNames}
NameRank(n) == CHOOSE i \in 1..Len(AllNames) : AllNames[i] = n

\* enum CommandArgs { String(String), Array(Vec<String>) }
CommandArgsString(command) == [kind |-> "String", command |-> command]
CommandArgsArray(args) == [kind |-> "Array", args |-> args]
CommandArgsValues ==
    {CommandArgsString("echo post create"), CommandArgsArray(<<"echo", "post-attach">>)}

\* enum CommandDefinition { Single(CommandArgs), Parallel(BTreeMap<String, CommandArgs>) }
Single(cmd) == [kind |-> "Single", cmd |-> cmd]
Parallel(commands) == [kind |-> "Parallel", commands |-> commands]
CommandDefinitionValues ==
    {Single(c) : c \in CommandArgsValues}
    \cup {Parallel(m) : m \in UNION {[K -> CommandArgsValues] : K \in SUBSET Names}}

\* CommandArgs::to_exec_args
to_exec_args_always_shell(cmd) ==
    <<"/bin/sh", "-c">> \o (IF cmd.kind = "String" THEN <<cmd.command>> ELSE cmd.args)

to_exec_args(cmd) ==
    IF cmd.kind = "String"
    THEN <<"/bin/sh", "-c", cmd.command>>
    ELSE cmd.args

\* struct ResolvedConfig: the fields the planner and the executor read.
ResolvedConfigValues ==
    [project_name : {"demo"},
     workspace_folder : {"/workspace"},
     config_path : {"/workspace/.devcontainer/devcontainer.json"},
     image_reference : {None, Some("example:image")},
     post_create_command : {None} \cup {Some(c) : c \in CommandDefinitionValues},
     post_attach_command : {None} \cup {Some(c) : c \in CommandDefinitionValues}]

\* struct LifecyclePlanOptions
LifecyclePlanOptionsValues ==
    [skip_post_create : {None, Some("--skip-post-create flag set")},
     skip_post_attach : {None, Some("--skip-post-attach flag set")}]

\* ---------------------------------------------------------------- planner

NO_POST_CREATE_COMMAND_REASON == "No postCreate command defined in configuration"
NO_POST_ATTACH_COMMAND_REASON == "No postAttach command defined in configuration"

\* enum LifecyclePhase, in declaration order.
LifecyclePhases == <<"Resolve", "Build", "Create", "Start", "PostCreate", "PostAttach">>

\* impl Display for LifecycleHook
HookName(hook) == IF hook = "PostCreate" THEN "postCreate" ELSE "postAttach"

\* enum HookAction { Execute, Skip { reason } }
Execute == [kind |-> "Execute"]
Skip(reason) == [kind |-> "Skip", reason |-> reason]

\* The action for_up chooses for one hook.
hook_action_command_first(skip, command, no_command_reason) ==
    IF ~command.some THEN Skip(no_command_reason)
    ELSE IF skip.some THEN Skip(skip.value)
    ELSE Execute

hook_action_ignoring_command(skip, command, no_command_reason) ==
    IF skip.some THEN Skip(skip.value) ELSE Execute

hook_action(skip, command, no_command_reason) ==
    IF skip.some THEN Skip(skip.value)
    ELSE IF ~command.some THEN Skip(no_command_reason)
    ELSE Execute

hook_code(hook, action) ==
    IF action.kind = "Execute"
    THEN "lifecycle.hook." \o HookName(hook)
    ELSE "lifecycle.hook." \o HookName(hook) \o ".skip"

hook_message(hook, action) ==
    IF action.kind = "Execute"
    THEN <<"Run ", HookName(hook), " lifecycle hook">>
    ELSE <<"Skip ", HookName(hook), " lifecycle hook (", action.reason, ")">>

LifecycleStep(phase, code, message, detail) ==
    [phase |-> phase, event |-> [code |-> code, message |-> message, detail |-> detail]]

hook_step(phase, action) ==
    LifecycleStep(phase, hook_code(phase, action), hook_message(phase, action),
                  [kind |-> "Hook", hook |-> phase, action |-> action])

\* The four provisioning steps for_up pushes first.
provision_steps(config) ==
    LET build_message ==
            IF config.image_reference.some
            THEN <<"Ensure devcontainer image ", config.image_reference.value, " is available">>
            ELSE <<"Build devcontainer image from workspace configuration">>
    IN  << LifecycleStep("Resolve", "lifecycle.resolve.config",
               <<"Resolve devcontainer configuration from ", config.config_path>>,
               [kind |-> "ResolveConfig", config_path |-> config.config_path]),
           LifecycleStep("Build", "lifecycle.build.image", build_message,
               [kind |-> "BuildImage", image_reference |-> config.image_reference]),
           LifecycleStep("Create", "lifecycle.create.container",
               <<"Create container for project ", config.project_name>>,
               [kind |-> "CreateContainer", project_name |-> config.project_name,
                workspace_folder |-> config.workspace_folder]),
           LifecycleStep("Start", "lifecycle.start.container",
               <<"Start container for project ", config.project_name>>,
               [kind |-> "StartContainer", project_name |-> config.project_name]) >>

post_create_action(config, options) ==
    hook_action(options.skip_post_create, config.post_create_command,
                NO_POST_CREATE_COMMAND_REASON)

post_attach_action(config, options) ==
    hook_action(options.skip_post_attach, config.post_attach_command,
                NO_POST_ATTACH_COMMAND_REASON)

\* LifecyclePlan::for_up
for_up_attach_before_create(config, options) ==
    provision_steps(config)
    \o <<hook_step("PostAttach", post_attach_action(config, options)),
         hook_step("PostCreate", post_create_action(config, options))>>

for_up(config, options) ==
    provision_steps(config)
    \o <<hook_step("PostCreate", post_create_action(config, options)),
         hook_step("PostAttach", post_attach_action(config, options))>>

\* LifecyclePlan::step_for_phase: the first step of the phase, if any.
step_for_phase_first_step(steps, phase) ==
    IF steps # <<>> THEN Some(steps[1]) ELSE None

step_for_phase(steps, phase) ==
    IF \E i \in 1..Len(steps) : steps[i].phase = phase
    THEN Some(steps[CHOOSE i \in 1..Len(steps) :
                      /\ steps[i].phase = phase
                      /\ \A j \in 1..(i - 1) : steps[j].phase # phase])
    ELSE None

\* --------------------------------------------------------------- executor

VARIABLES
    config,           \* execute's config: &ResolvedConfig
    options,          \* the LifecyclePlanOptions the plan was built with
    plan,             \* execute's plan: the steps of the LifecyclePlan
    pc,               \* where execute stands
    inFlight,         \* provider operations called and not yet returned
    calls,            \* every provider operation invoked so far, in order
    returns,          \* what each returned, in order
    executed_phases,  \* execute's local executed_phases
    container,        \* the RunningContainer create_container returned
    pending,          \* the hook commands run_hook has still to run
    exec_result,      \* run_hook_command's result: the ExecResult that failed the hook
    result            \* what execute returned

execVars == <<config, options, plan, pc, inFlight, calls, returns,
              executed_phases, container, pending, exec_result, result>>

VARIABLES
    engine,           \* the docker engine: the names of its networks and volumes
    preparation,      \* the ProviderPreparation the provider is called with
    d_op,             \* the DockerProvider operation called last
    d_pc,             \* where that operation stands
    d_idx,            \* its position in the list it loops over
    commands,         \* the docker commands it has run, with their outputs
    d_result,         \* what it returned
    previous          \* the call before it: operation, success, whether it created

VARIABLES
    containers,       \* the docker engine: its containers, each with name, id and state
    next_id,          \* the number of containers the engine has created so far, plus one
    d_args,           \* the arguments the DockerProvider operation was called with
    filesystem,       \* the paths that exist on the host
    fn_input,         \* the argument of a conversion applied on its own
    fn_output         \* what the conversion returned

hostVars == <<containers, next_id, d_args, filesystem, fn_input, fn_output>>

dockerVars == <<engine, preparation, d_op, d_pc, d_idx, commands, d_result, previous,
                hostVars>>

vars == <<execVars, dockerVars>>

Hooks == {"PostCreate", "PostAttach"}

\* The operations of trait Provider.
ProviderOps ==
    {"prepare", "ensure_networks", "ensure_volumes", "build_image", "create_container",
     "start_container", "exec", "stop_container", "cleanup"}

\* enum DevcontainerError
ProviderError(message) == [kind |-> "Provider", message |-> message]
ConfigurationError(message) == [kind |-> "Configuration", message |-> message]

\* What a provider operation may return: Ok, or one of the errors.
ProviderResults ==
    {[ok |-> TRUE, error |-> ProviderError(<<>>)]}
    \cup {[ok |-> FALSE, error |-> e] :
            e \in {ProviderError(<<"engine failure">>),
                   ConfigurationError(<<"invalid configuration">>)}}

\* struct ExecResult, stdout left out (it is only logged). stderr is a list of
\* tokens, " " standing for white space.
StderrTokens == {" ", "boom"}
ExitCodes == {0, 5, -1}
ExecResults == [exit_code : ExitCodes, stderr : SeqUpTo(StderrTokens, MaxStderrLen)]

\* struct RunningContainer, as a provider returns it from create_container.
RunningContainerValues ==
    {[id |-> Some("container-id"), name |-> Some("test-container")]}

\* Texts (stderr, messages) are lists of tokens; these tokens are white space.
Whitespace == {" ", "\n"}

\* str::trim
RECURSIVE trim_start(_)
trim_start(s) ==
    IF s # <<>> /\ Head(s) \in Whitespace THEN trim_start(Tail(s)) ELSE s

RECURSIVE trim_end(_)
trim_end(s) ==
    IF s # <<>> /\ s[Len(s)] \in Whitespace
    THEN trim_end(SubSeq(s, 1, Len(s) - 1))
    ELSE s

trim(s) == trim_end(trim_start(s))

\* The names of a set of map keys in ascending order.
RECURSIVE ascending(_)
ascending(K) ==
    IF K = {} THEN <<>>
    ELSE LET least == CHOOSE n \in K : \A m \in K : NameRank(n) <= NameRank(m)
         IN  <<least>> \o ascending(K \ {least})

RECURSIVE descending(_)
descending(K) ==
    IF K = {} THEN <<>>
    ELSE LET greatest == CHOOSE n \in K : \A m \in K : NameRank(n) >= NameRank(m)
         IN  <<greatest>> \o descending(K \ {greatest})

\* LifecycleExecutor::run_hook: the (command_name, command) pairs it passes
\* to run_hook_command, in order.
run_hook_descending(command) ==
    IF command.kind = "Single"
    THEN <<[name |-> None, cmd |-> command.cmd]>>
    ELSE LET keys == descending(DOMAIN command.commands)
         IN  [i \in 1..Len(keys) |->
                [name |-> Some(keys[i]), cmd |-> command.commands[keys[i]]]]

run_hook(command) ==
    IF command.kind = "Single"
    THEN <<[name |-> None, cmd |-> command.cmd]>>
    ELSE LET keys == ascending(DOMAIN command.commands)
         IN  [i \in 1..Len(keys) |->
                [name |-> Some(keys[i]), cmd |-> command.commands[keys[i]]]]

\* LifecycleExecutor::handle_hook: the commands to run for an action.
handle_hook_ignoring_skip(action, command) ==
    IF command.some THEN run_hook(command.value) ELSE <<>>

handle_hook(action, command) ==
    IF action.kind = "Execute"
    THEN IF command.some THEN run_hook(command.value) ELSE <<>>
    ELSE <<>>

\* The branch of handle_hook that warns "Hook marked for execution without a
\* resolved command".
execute_without_command(action, command) == action.kind = "Execute" /\ ~command.some

\* The `if let LifecycleEventDetail::Hook { hook, action }` of execute.
hook_commands(detail, hook, command) ==
    IF detail.kind = "Hook" /\ detail.hook = hook
    THEN handle_hook(detail.action, command)
    ELSE <<>>

\* The error message run_hook_command builds for a non-zero exit code.
hook_failure_message_without_stderr(hook, command_name, exit_code, stderr) ==
    IF command_name.some
    THEN <<HookName(hook), " command '", command_name.value, "' failed with exit code ",
           ToString(exit_code)>>
    ELSE <<HookName(hook), " command failed with exit code ", ToString(exit_code)>>

hook_failure_message(hook, command_name, exit_code, stderr) ==
    (IF command_name.some
     THEN <<HookName(hook), " command '", command_name.value, "' failed with exit code ",
            ToString(exit_code)>>
     ELSE <<HookName(hook), " command failed with exit code ", ToString(exit_code)>>)
    \o (IF trim(stderr) # <<>> THEN <<" (">> \o trim(stderr) \o <<")">> ELSE <<>>)

\* The command of a hook in the config.
hook_command(cfg, hook) ==
    IF hook = "PostCreate" THEN cfg.post_create_command ELSE cfg.post_attach_command

\* The position execute moves to when a provisioning operation returned Ok.
after_volumes_before_networks(op) ==
    CASE op = "prepare" -> "ensure_volumes"
      [] op = "ensure_volumes" -> "ensure_networks"
      [] op = "ensure_networks" -> "build_image"
      [] op = "build_image" -> "create_container"
      [] op = "create_container" -> "start_container"
      [] op = "start_container" -> "post_create"

after(op) ==
    CASE op = "prepare" -> "ensure_networks"
      [] op = "ensure_networks" -> "ensure_volumes"
      [] op = "ensure_volumes" -> "build_image"
      [] op = "build_image" -> "create_container"
      [] op = "create_container" -> "start_container"
      [] op = "start_container" -> "post_create"

\* The phase execute pushes on executed_phases when the operation returned Ok.
recorded_with_networks_as_build(op) ==
    CASE op = "prepare" -> Some("Resolve")
      [] op = "ensure_networks" -> Some("Build")
      [] op = "build_image" -> Some("Build")
      [] op = "create_container" -> Some("Create")
      [] op = "start_container" -> Some("Start")
      [] OTHER -> None

recorded(op) ==
    CASE op = "prepare" -> Some("Resolve")
      [] op = "build_image" -> Some("Build")
      [] op = "create_container" -> Some("Create")
      [] op = "start_container" -> Some("Start")
      [] OTHER -> None

\* run_hook_command's test of the exit code.
hook_failed_if_positive(exit_code) == exit_code > 0

hook_failed(exit_code) == exit_code # 0

\* Positions of execute in a hook phase.
HookPc(hook) == IF hook = "PostCreate" THEN "post_create" ELSE "post_attach"
RunPc(hook) == IF hook = "PostCreate" THEN "run_post_create" ELSE "run_post_attach"
AfterHook(hook) == IF hook = "PostCreate" THEN "post_attach" ELSE "finish"

\* An entry of the log of provider calls.
Call(op, hook, name, argv) == [op |-> op, hook |-> hook, name |-> name, argv |-> argv]

Running == [kind |-> "Running"]
Ok(outcome) == [kind |-> "Ok", outcome |-> outcome]
Err(error) == [kind |-> "Err", error |-> error]

ExecInit ==
    /\ config \in ResolvedConfigValues
    /\ options \in LifecyclePlanOptionsValues
    /\ plan = <<>>
    /\ pc = "plan"
    /\ inFlight = {}
    /\ calls = <<>>
    /\ returns = <<>>
    /\ executed_phases = <<>>
    /\ container = None
    /\ pending = <<>>
    /\ exec_result = None
    /\ result = Running

\* UpArgs::run builds the plan with LifecyclePlan::for_up and hands it to execute.
ForUp ==
    /\ pc = "plan"
    /\ plan' = for_up(config, options)
    /\ pc' = "prepare"
    /\ UNCHANGED <<config, options, inFlight, calls, returns, executed_phases, container,
                   pending, exec_result, result>>
    /\ UNCHANGED dockerVars

\* The `?` of execute: the error is returned at once, nothing is undone.
AbortWithCleanup(error) ==
    /\ pc' = "failed"
    /\ result' = Err(error)
    /\ calls' = calls \o <<Call("stop_container", "", None, <<>>), Call("cleanup", "", None, <<>>)>>

Abort(error) ==
    /\ pc' = "failed"
    /\ result' = Err(error)
    /\ UNCHANGED calls

\* execute calls a provisioning operation of the provider and awaits it.
Invoke(op) ==
    /\ pc = op
    /\ inFlight = {}
    /\ inFlight' = {op}
    /\ calls' = Append(calls, Call(op, "", None, <<>>))
    /\ UNCHANGED <<config, options, plan, pc, returns, executed_phases, container,
                   pending, exec_result, result>>
    /\ UNCHANGED dockerVars

\* The operation returns: Ok moves execute on, an error ends it.
Return(op) ==
    /\ pc = op
    /\ inFlight = {op}
    /\ \E r \in ProviderResults, c \in RunningContainerValues :
         /\ inFlight' = {}
         /\ returns' = Append(returns, [ok |-> r.ok, exit_code |-> 0])
         /\ IF r.ok
            THEN /\ pc' = after(op)
                 /\ executed_phases' =
                        IF recorded(op).some
                        THEN Append(executed_phases, recorded(op).value)
                        ELSE executed_phases
                 /\ container' = IF op = "create_container" THEN Some(c) ELSE container
                 /\ UNCHANGED <<calls, result>>
            ELSE /\ Abort(r.error)
                 /\ UNCHANGED <<executed_phases, container>>
    /\ UNCHANGED <<config, options, plan, pending, exec_result>>
    /\ UNCHANGED dockerVars

PrepareCall == Invoke("prepare")
PrepareReturn == Return("prepare")
EnsureNetworksCall == Invoke("ensure_networks")
EnsureNetworksReturn == Return("ensure_networks")
EnsureVolumesCall == Invoke("ensure_volumes")
EnsureVolumesReturn == Return("ensure_volumes")
BuildImageCall == Invoke("build_image")
BuildImageReturn == Return("build_image")
CreateContainerCall == Invoke("create_container")
CreateContainerReturn == Return("create_container")
StartContainerCall == Invoke("start_container")
StartContainerReturn == Return("start_container")

\* execute reaches a hook phase: without a step for it in the plan the phase
\* is passed over; with one, handle_hook decides what to run.
BeginHook(hook) ==
    /\ pc = HookPc(hook)
    /\ inFlight = {}
    /\ LET step == step_for_phase(plan, hook)
       IN  IF step.some
           THEN /\ pending' = hook_commands(step.value.event.detail, hook,
                                            hook_command(config, hook))
                /\ pc' = RunPc(hook)
           ELSE /\ pc' = AfterHook(hook)
                /\ UNCHANGED pending
    /\ UNCHANGED <<config, options, plan, inFlight, calls, returns, executed_phases,
                   container, exec_result, result>>
    /\ UNCHANGED dockerVars

\* run_hook_command calls the provider's exec for the next command.
ExecCall(hook) ==
    /\ pc = RunPc(hook)
    /\ pending # <<>>
    /\ inFlight = {}
    /\ inFlight' = {"exec"}
    /\ calls' = Append(calls, Call("exec", hook, Head(pending).name,
                                   to_exec_args(Head(pending).cmd)))
    /\ UNCHANGED <<config, options, plan, pc, returns, executed_phases, container,
                   pending, exec_result, result>>
    /\ UNCHANGED dockerVars

\* exec returned an error: `?` returns it.
ExecError(hook) ==
    /\ pc = RunPc(hook)
    /\ inFlight = {"exec"}
    /\ \E r \in ProviderResults :
         /\ ~r.ok
         /\ inFlight' = {}
         /\ returns' = Append(returns, [ok |-> FALSE, exit_code |-> 0])
         /\ Abort(r.error)
    /\ UNCHANGED <<config, options, plan, executed_phases, container, pending,
                   exec_result>>
    /\ UNCHANGED dockerVars

\* exec returned an ExecResult: a non-zero exit code is a provider error,
\* otherwise run_hook goes on to the next command.
ExecReturn(hook) ==
    /\ pc = RunPc(hook)
    /\ inFlight = {"exec"}
    /\ \E r \in ExecResults :
         /\ inFlight' = {}
         /\ returns' = Append(returns, [ok |-> TRUE, exit_code |-> r.exit_code])
         /\ IF hook_failed(r.exit_code)
            THEN /\ Abort(ProviderError(hook_failure_message(
                            hook, Head(pending).name, r.exit_code, r.stderr)))
                 /\ exec_result' = Some(r)
                 /\ UNCHANGED pending
            ELSE /\ pending' = Tail(pending)
                 /\ UNCHANGED <<pc, calls, exec_result, result>>
    /\ UNCHANGED <<config, options, plan, executed_phases, container>>
    /\ UNCHANGED dockerVars

\* handle_hook returned Ok: the phase is pushed on executed_phases.
EndHook(hook) ==
    /\ pc = RunPc(hook)
    /\ pending = <<>>
    /\ inFlight = {}
    /\ executed_phases' = Append(executed_phases, hook)
    /\ pc' = AfterHook(hook)
    /\ UNCHANGED <<config, options, plan, inFlight, calls, returns, container,
                   pending, exec_result, result>>
    /\ UNCHANGED dockerVars

\* execute returns Ok(LifecycleOutcome).
Finish ==
    /\ pc = "finish"
    /\ result' = Ok([container |-> container.value, executed_phases |-> executed_phases])
    /\ pc' = "done"
    /\ UNCHANGED <<config, options, plan, inFlight, calls, returns, executed_phases,
                   container, pending, exec_result>>
    /\ UNCHANGED dockerVars

ExecNext ==
    \/ ForUp
    \/ PrepareCall \/ PrepareReturn
    \/ EnsureNetworksCall \/ EnsureNetworksReturn
    \/ EnsureVolumesCall \/ EnsureVolumesReturn
    \/ BuildImageCall \/ BuildImageReturn
    \/ CreateContainerCall \/ CreateContainerReturn
    \/ StartContainerCall \/ StartContainerReturn
    \/ \E hook \in Hooks :
         BeginHook(hook) \/ ExecCall(hook) \/ ExecError(hook) \/ ExecReturn(hook)
         \/ EndHook(hook)
    \/ Finish

\* The plans execute is handed on its own: the steps of a plan of for_up whose
\* phases are among the given ones, and a plan whose PostCreate step carries
\* the detail of the other hook.
PhaseSets ==
    {{}, Range(LifecyclePhases), {"PostCreate"}, {"PostAttach"},
     {"Resolve", "Build", "Create", "Start"}, {"Build", "PostCreate", "PostAttach"}}
steps_among(steps, phases) == SelectSeq(steps, LAMBDA step : step.phase \in phases)
LifecyclePlanValues(cfg, opts) ==
    {steps_among(for_up(cfg, opts), phases) : phases \in PhaseSets}
    \cup {<<[hook_step("PostAttach", post_attach_action(cfg, opts))
               EXCEPT !.phase = "PostCreate"]>>}

\* The hook commands of the configs execute is handed with these plans.
PlanCommandValues ==
    {None, Some(Single(CommandArgsString("echo post create"))),
     Some(Parallel([n \in Names |-> CommandArgsArray(<<"echo", "post-attach">>)]))}

ExecuteNext ==
    \/ PrepareCall \/ PrepareReturn
    \/ EnsureNetworksCall \/ EnsureNetworksReturn
    \/ EnsureVolumesCall \/ EnsureVolumesReturn
    \/ BuildImageCall \/ BuildImageReturn
    \/ CreateContainerCall \/ CreateContainerReturn
    \/ StartContainerCall \/ StartContainerReturn
    \/ \E hook \in Hooks :
         BeginHook(hook) \/ ExecCall(hook) \/ ExecError(hook) \/ ExecReturn(hook)
         \/ EndHook(hook)
    \/ Finish

ExecOff ==
    /\ config = CHOOSE c \in ResolvedConfigValues :
                   ~c.post_create_command.some /\ ~c.post_attach_command.some
                   /\ c.image_reference.some
    /\ options = [skip_post_create |-> None, skip_post_attach |-> None]
    /\ plan = <<>>
    /\ pc = "off"
    /\ inFlight = {}
    /\ calls = <<>>
    /\ returns = <<>>
    /\ executed_phases = <<>>
    /\ container = None
    /\ pending = <<>>
    /\ exec_result = None
    /\ result = Running

\* -------------------------------------------------------- docker provider

\* The two kinds of resource ensure_networks and ensure_volumes reconcile.
Kinds == {"network", "volume"}

NetworkNames == {"devcontainer-demo-network", "devcontainer-other-network"}
VolumeNames == {"devcontainer-demo-data", "devcontainer-other-data"}
ResourceNames(kind) == IF kind = "network" THEN NetworkNames ELSE VolumeNames

\* struct VolumeSpec
VolumeSpec(name) == [name |-> name, mount_path |-> "/workspaces/.devcontainer"]

\* struct ProviderPreparation: the lists ensure_networks and ensure_volumes read.
ProviderPreparationValues ==
    [container_name : {"devcontainer-demo"},
     workspace_mount_path : {"/workspaces/demo"},
     networks : SeqUpTo(NetworkNames, MaxResources),
     volumes : {[i \in 1..Len(ns) |-> VolumeSpec(ns[i])] :
                  ns \in SeqUpTo(VolumeNames, MaxResources)}]

\* The names an operation loops over.
resource_names(prep, kind) ==
    IF kind = "network"
    THEN prep.networks
    ELSE [i \in 1..Len(prep.volumes) |-> prep.volumes[i].name]

EnsureOp(kind) == IF kind = "network" THEN "ensure_networks" ELSE "ensure_volumes"

\* The text ensure_networks / ensure_volumes look for in an inspect's stderr.
AbsencePattern(kind) == IF kind = "network" THEN "No such network" ELSE "No such volume"

\* What DockerCli::run yields: the command could not be spawned, or a
\* CommandOutput with the exit status and the captured stderr.
SpawnFailure == [spawned |-> FALSE, code |-> -1, stderr |-> <<>>]
CommandOutput(code, stderr) == [spawned |-> TRUE, code |-> code, stderr |-> stderr]

\* ExitStatus::success
success(output) == output.code = 0

\* String::contains, on a text of tokens.
contains(text, pattern) == \E i \in 1..Len(text) : text[i] = pattern

DaemonFailure ==
    CommandOutput(1, <<"Cannot connect to the Docker daemon", "\n">>)

\* The engine's answers to `docker <kind> inspect <name>`: success when the
\* resource exists, an absence message when it does not; the daemon may fail
\* and the binary may fail to spawn at any time.
inspect_outputs(eng, kind, name) ==
    (IF name \in eng[kind]
     THEN {CommandOutput(0, <<>>)}
     ELSE {CommandOutput(1, <<"Error response from daemon: ", AbsencePattern(kind),
                              ": ", name, "\n">>)})
    \cup {DaemonFailure, SpawnFailure}

\* The engine's answers to `docker <kind> create <name>`.
create_outputs(eng, kind, name) ==
    (IF name \in eng[kind]
     THEN {CommandOutput(1, <<"Error response from daemon: ", kind, " with name ", name,
                              " already exists", "\n">>)}
     ELSE {CommandOutput(0, <<>>)})
    \cup {DaemonFailure, SpawnFailure}

\* The engine after a create that succeeded.
created(eng, kind, name) == [eng EXCEPT ![kind] = @ \cup {name}]

\* What ensure_networks / ensure_volumes do with the output of an inspect.
inspect_decision_create_on_any_failure(output, kind) ==
    IF success(output) THEN "continue" ELSE "create"

inspect_decision(output, kind) ==
    IF success(output) THEN "continue"
    ELSE IF contains(output.stderr, AbsencePattern(kind)) THEN "create"
    ELSE "error"

\* format_command, with "docker" for the program's path.
format_command(args) == <<"docker">> \o args

\* The error of DockerCli::run when the command cannot be spawned.
spawn_error(args) ==
    ProviderError(<<"Failed to spawn '">> \o format_command(args) \o <<"'">>)

\* CommandOutput::ensure_success: the error for a non-zero exit.
ensure_success_error(args, output) ==
    ProviderError(<<"Command '">> \o format_command(args)
                  \o <<"' exited with code ", ToString(output.code), ". stdout: ",
                       " stderr: ">> \o trim(output.stderr))

inspect_error(kind, name, output) ==
    ProviderError(<<"Failed to inspect docker ", kind, " ", name, ": ">>
                  \o trim(output.stderr))

NoCall == [op |-> "none", ok |-> FALSE, created |-> FALSE]

\* No container operation has been called and no conversion applied.
NoArgs == [op |-> "none"]

ContainerOff ==
    /\ containers = {}
    /\ next_id = 1
    /\ d_args = NoArgs

ConversionOff ==
    /\ fn_input = None
    /\ fn_output = None

HostOff ==
    /\ ContainerOff
    /\ filesystem = {}
    /\ ConversionOff

\* A create of the log that succeeded.
IsCreate(entry) == entry.argv[2] = "create"
Created(log) == \E i \in 1..Len(log) : IsCreate(log[i]) /\ success(log[i].output)

DockerInit ==
    /\ engine \in [network : SUBSET NetworkNames, volume : SUBSET VolumeNames]
    /\ preparation \in ProviderPreparationValues
    /\ d_op = "none"
    /\ d_pc = "idle"
    /\ d_idx = 0
    /\ commands = <<>>
    /\ d_result = Running
    /\ previous = NoCall
    /\ HostOff

EngineOff ==
    /\ engine = [network |-> {}, volume |-> {}]
    /\ preparation = [container_name |-> "", workspace_mount_path |-> "",
                      networks |-> <<>>, volumes |-> <<>>]
    /\ d_op = "none"
    /\ d_pc = "off"
    /\ d_idx = 0
    /\ commands = <<>>
    /\ d_result = Running
    /\ previous = NoCall

DockerOff == EngineOff /\ HostOff

\* The operation returns an error.
Fail(error) ==
    /\ d_result' = Err(error)
    /\ d_pc' = "idle"

\* ensure_networks / ensure_volumes is called: self.cli()? locates the docker
\* binary, then the loop starts at the first resource.
EnsureBegin(kind) ==
    /\ d_pc = "idle"
    /\ d_op' = EnsureOp(kind)
    /\ previous' = IF d_op = "none" THEN NoCall
                   ELSE [op |-> d_op, ok |-> d_result.kind = "Ok",
                         created |-> Created(commands)]
    /\ commands' = <<>>
    /\ d_idx' = 1
    /\ \E located \in BOOLEAN :
         IF located
         THEN d_pc' = "inspect" /\ d_result' = Running
         ELSE Fail(ProviderError(<<"Failed to locate docker binary '", "docker", "'">>))
    /\ UNCHANGED <<engine, preparation>>
    /\ UNCHANGED <<execVars, hostVars>>

\* The loop runs `docker <kind> inspect <name>` for the current resource.
EnsureInspect(kind) ==
    /\ d_op = EnsureOp(kind)
    /\ d_pc = "inspect"
    /\ d_idx <= Len(resource_names(preparation, kind))
    /\ LET name == resource_names(preparation, kind)[d_idx]
           args == <<kind, "inspect", name>>
       IN  \E output \in inspect_outputs(engine, kind, name) :
             /\ commands' = Append(commands, [argv |-> args, output |-> output])
             /\ IF ~output.spawned
                THEN Fail(spawn_error(args)) /\ UNCHANGED d_idx
                ELSE CASE inspect_decision(output, kind) = "continue" ->
                            d_idx' = d_idx + 1 /\ UNCHANGED <<d_pc, d_result>>
                       [] inspect_decision(output, kind) = "create" ->
                            d_pc' = "create" /\ UNCHANGED <<d_idx, d_result>>
                       [] OTHER ->
                            Fail(inspect_error(kind, name, output)) /\ UNCHANGED d_idx
    /\ UNCHANGED <<engine, preparation, d_op, previous>>
    /\ UNCHANGED <<execVars, hostVars>>

\* The inspect reported the resource absent: `docker <kind> create <name>`
\* through run_expect_success.
EnsureCreate(kind) ==
    /\ d_op = EnsureOp(kind)
    /\ d_pc = "create"
    /\ LET name == resource_names(preparation, kind)[d_idx]
           args == <<kind, "create", name>>
       IN  \E output \in create_outputs(engine, kind, name) :
             /\ commands' = Append(commands, [argv |-> args, output |-> output])
             /\ IF ~output.spawned
                THEN Fail(spawn_error(args)) /\ UNCHANGED <<d_idx, engine>>
                ELSE IF success(output)
                THEN /\ engine' = created(engine, kind, name)
                     /\ d_idx' = d_idx + 1
                     /\ d_pc' = "inspect"
                     /\ UNCHANGED d_result
                ELSE Fail(ensure_success_error(args, output)) /\ UNCHANGED <<d_idx, engine>>
    /\ UNCHANGED <<preparation, d_op, previous>>
    /\ UNCHANGED <<execVars, hostVars>>

\* The loop is over: Ok(()).
EnsureEnd(kind) ==
    /\ d_op = EnsureOp(kind)
    /\ d_pc = "inspect"
    /\ d_idx > Len(resource_names(preparation, kind))
    /\ d_result' = Ok("()")
    /\ d_pc' = "idle"
    /\ UNCHANGED <<engine, preparation, d_op, d_idx, commands, previous>>
    /\ UNCHANGED <<execVars, hostVars>>

ensure_networks_begin == EnsureBegin("network")
ensure_networks_inspect == EnsureInspect("network")
ensure_networks_create == EnsureCreate("network")
ensure_networks_end == EnsureEnd("network")
ensure_volumes_begin == EnsureBegin("volume")
ensure_volumes_inspect == EnsureInspect("volume")
ensure_volumes_create == EnsureCreate("volume")
ensure_volumes_end == EnsureEnd("volume")

DockerNext ==
    \/ ensure_networks_begin \/ ensure_networks_inspect
    \/ ensure_networks_create \/ ensure_networks_end
    \/ ensure_volumes_begin \/ ensure_volumes_inspect
    \/ ensure_volumes_create \/ ensure_volumes_end

\* ------------------------------------------------ container operations

\* A container of the engine: docker keeps names and ids unique.
Container(name, id, running) == [name |-> name, id |-> id, running |-> running]

\* The containers an identifier (a name or an id) addresses.
addressed(cs, identifier) == {c \in cs : c.name = identifier \/ c.id = identifier}

\* The RunningContainer values start_container, exec and stop_container are
\* called with: with or without id, with or without name.
RunningContainerHandles ==
    [id : {None, Some("1")}, name : {None, Some("devcontainer-demo")}]

\* container.name.as_ref().or(container.id.as_ref())
identifier_of_preferring_id(handle) == IF handle.id.some THEN handle.id ELSE handle.name

identifier_of(handle) == IF handle.name.some THEN handle.name ELSE handle.id

\* struct ProviderCleanupOptions
ProviderCleanupOptionsValues == [remove_volumes : BOOLEAN, remove_unknown : BOOLEAN]

\* The commands exec is called with.
ExecCommands == {<<>>, <<"true">>}

\* ExecResult::default()
ExecResultDefault == [exit_code |-> 0, stdout |-> <<>>, stderr |-> <<>>]

\* A CommandOutput with its stdout.
CommandOutputWith(code, stdout, stderr) ==
    [spawned |-> TRUE, code |-> code, stdout |-> stdout, stderr |-> stderr]

no_such(what, name) ==
    CommandOutput(1, <<"Error response from daemon: ", what, ": ", name, "\n">>)

\* The engine's answers to `docker container rm --force <name>`: the container
\* is removed when it exists; when it does not, engines answer with an
\* absence message or, the newer ones, with success.
container_rm_outputs(cs, name) ==
    (IF addressed(cs, name) # {}
     THEN {CommandOutput(0, <<>>)}
     ELSE {no_such("No such container", name), CommandOutput(0, <<>>)})
    \cup {DaemonFailure, SpawnFailure}

\* The engine's answers to `docker create --name <name> ...`: a name in use is
\* refused, a new container gets the next id, printed on stdout.
container_create_outputs(cs, name, id) ==
    (IF addressed(cs, name) # {}
     THEN {CommandOutput(1, <<"Error response from daemon: ", "Conflict. The container name ",
                              name, " is already in use", "\n">>)}
     ELSE {CommandOutputWith(0, <<id, "\n">>, <<>>), CommandOutputWith(0, <<>>, <<>>)})
    \cup {DaemonFailure, SpawnFailure}

\* The engine's answers to `docker start <identifier>`.
container_start_outputs(cs, identifier) ==
    (IF addressed(cs, identifier) # {}
     THEN {CommandOutput(0, <<>>)}
     ELSE {no_such("No such container", identifier)})
    \cup {DaemonFailure, SpawnFailure}

\* The engine's answers to `docker exec <identifier> <command>`: the exit code
\* of the command (-1 standing for a death by signal) when the container runs.
container_exec_outputs(cs, identifier) ==
    (IF \E c \in addressed(cs, identifier) : c.running
     THEN {CommandOutput(0, <<>>), CommandOutput(5, <<"boom", "\n">>),
           CommandOutput(-1, <<>>)}
     ELSE IF addressed(cs, identifier) # {}
     THEN {CommandOutput(1, <<"Error response from daemon: ", "Container ", identifier,
                              " ", "is not running", "\n">>)}
     ELSE {no_such("No such container", identifier)})
    \cup {DaemonFailure, SpawnFailure}

\* The engine's answers to `docker container stop <identifier>`.
container_stop_outputs(cs, identifier) ==
    (IF \E c \in addressed(cs, identifier) : c.running
     THEN {CommandOutput(0, <<>>)}
     ELSE IF addressed(cs, identifier) # {}
     THEN {CommandOutput(0, <<>>),
           CommandOutput(1, <<"Error response from daemon: ", "Container ", identifier,
                              " ", "is not running", "\n">>)}
     ELSE {no_such("No such container", identifier)})
    \cup {DaemonFailure, SpawnFailure}

\* The engine's answers to `docker <kind> rm <name>`.
resource_rm_outputs(eng, kind, name) ==
    (IF name \in eng[kind]
     THEN {CommandOutput(0, <<>>)}
     ELSE {no_such(AbsencePattern(kind), name)})
    \cup {DaemonFailure, SpawnFailure}

\* The engine after the commands that succeeded.
removed_container(cs, identifier) == cs \ addressed(cs, identifier)
created_container(cs, name, id) == cs \cup {Container(name, id, FALSE)}
started_container(cs, identifier) ==
    {IF c \in addressed(cs, identifier) THEN [c EXCEPT !.running = TRUE] ELSE c : c \in cs}
stopped_container(cs, identifier) ==
    {IF c \in addressed(cs, identifier) THEN [c EXCEPT !.running = FALSE] ELSE c : c \in cs}
removed(eng, kind, name) == [eng EXCEPT ![kind] = @ \ {name}]

\* ------------------------------------------------------------ sanitize_name

\* Characters are one-letter strings. A project name is drawn from one upper
\* case letter, one lower case letter, one digit, the three characters kept as
\* they are, a blank and a
\* letter outside ASCII, written "U+00E9".
AsciiUppercase == {"A"}
AsciiLowercase ==
    {"a", "b", "c", "d", "e", "f", "g", "h", "i", "j", "k", "l", "m",
     "n", "o", "p", "q", "r", "s", "t", "u", "v", "w", "x", "y", "z"}
AsciiDigits == {"0", "1", "2", "3", "4", "5", "6", "7", "8", "9"}
NameChars == {"A", "b", "7", "-", "_", ".", " ", "U+00E9"}
ProjectNameValues == SeqUpTo(NameChars, MaxNameLen)

\* char::is_ascii_alphanumeric
is_ascii_alphanumeric(ch) == ch \in AsciiUppercase \cup AsciiLowercase \cup AsciiDigits

\* char::to_ascii_lowercase
to_ascii_lowercase(ch) == IF ch = "A" THEN "a" ELSE ch

\* The first loop of sanitize_name: what is pushed for one character.
sanitize_char(ch) ==
    IF is_ascii_alphanumeric(ch) THEN to_ascii_lowercase(ch)
    ELSE IF ch \in {"-", "_", "."} THEN ch
    ELSE "-"

\* while result.starts_with('-') { result.remove(0); }
RECURSIVE remove_leading_hyphens(_)
remove_leading_hyphens(r) ==
    IF r # <<>> /\ Head(r) = "-" THEN remove_leading_hyphens(Tail(r)) ELSE r

\* while result.ends_with('-') { result.pop(); }
RECURSIVE pop_trailing_hyphens(_)
pop_trailing_hyphens(r) ==
    IF r # <<>> /\ r[Len(r)] = "-"
    THEN pop_trailing_hyphens(SubSeq(r, 1, Len(r) - 1))
    ELSE r

\* The slug returned for a name that sanitizes to nothing.
FallbackSlug == <<"d", "e", "v", "c", "o", "n", "t", "a", "i", "n", "e", "r">>

sanitize_name_keeping_trailing_hyphens(input) ==
    LET cleaned == remove_leading_hyphens([i \in 1..Len(input) |-> sanitize_char(input[i])])
    IN  IF cleaned = <<>> THEN FallbackSlug ELSE cleaned

sanitize_name(input) ==
    LET cleaned == pop_trailing_hyphens(remove_leading_hyphens(
                      [i \in 1..Len(input) |-> sanitize_char(input[i])]))
    IN  IF cleaned = <<>> THEN FallbackSlug ELSE cleaned

\* sanitize_name applied to a project name.
SanitizeInit ==
    /\ ExecOff
    /\ EngineOff
    /\ ContainerOff
    /\ filesystem = {}
    /\ fn_input \in {[some |-> TRUE, fn |-> "sanitize_name", arg |-> n] :
                        n \in ProjectNameValues}
    /\ fn_output = None

SanitizeName ==
    /\ fn_input.some
    /\ fn_input.fn = "sanitize_name"
    /\ fn_output = None
    /\ fn_output' = Some(sanitize_name(fn_input.arg))
    /\ UNCHANGED <<execVars, engine, preparation, d_op, d_pc, d_idx, commands, d_result,
                   previous, containers, next_id, d_args, filesystem, fn_input>>

\* ------------------------------------------------------------------ prepare

\* Paths are lists of components, "/" the root.
WorkspaceFolder == <<"/", "workspace">>
DockerfilePaths == {<<"/", "workspace", ".devcontainer", "Dockerfile">>, <<"/">>}

\* Path::parent
parent(path) == IF Len(path) <= 1 THEN None ELSE Some(SubSeq(path, 1, Len(path) - 1))

\* The fields of ResolvedConfig that prepare reads; the project name is a list
\* of characters.
PrepareProjectNames == {<<"A", "b", " ", "7">>, <<"-", "U+00E9">>}
PrepareConfigValues ==
    [project_name : PrepareProjectNames,
     workspace_folder : {WorkspaceFolder},
     image_reference : {None, Some("example:image")},
     dockerfile : {None} \cup {Some(d) : d \in DockerfilePaths}]

\* enum ProviderImage
Reference(reference) == [kind |-> "Reference", reference |-> reference]
Build(dockerfile, build_context, tag) ==
    [kind |-> "Build", dockerfile |-> dockerfile, build_context |-> build_context,
     tag |-> tag]

\* `docker version --format {{.Server.Version}}` and what it may answer.
VersionArgs == <<"version", "--format", "{{.Server.Version}}">>
version_outputs == {CommandOutput(0, <<>>), DaemonFailure, SpawnFailure}

\* prepare: the choice of the image source.
choose_image_preferring_dockerfile(cfg, fs, project_slug) ==
    IF cfg.dockerfile.some
    THEN IF cfg.dockerfile.value \notin fs
         THEN Err(ConfigurationError(<<"Dockerfile ">> \o cfg.dockerfile.value
                                     \o <<" does not exist">>))
         ELSE Ok(Build(cfg.dockerfile.value,
                       IF parent(cfg.dockerfile.value).some
                       THEN parent(cfg.dockerfile.value).value
                       ELSE cfg.workspace_folder,
                       <<"devcontainer-">> \o project_slug \o <<":latest">>))
    ELSE IF cfg.image_reference.some
    THEN Ok(Reference(cfg.image_reference.value))
    ELSE Err(ConfigurationError(
               <<"devcontainer.json must define either image or dockerFile">>))

choose_image(cfg, fs, project_slug) ==
    IF cfg.image_reference.some
    THEN Ok(Reference(cfg.image_reference.value))
    ELSE IF cfg.dockerfile.some
    THEN IF cfg.dockerfile.value \notin fs
         THEN Err(ConfigurationError(<<"Dockerfile ">> \o cfg.dockerfile.value
                                     \o <<" does not exist">>))
         ELSE Ok(Build(cfg.dockerfile.value,
                       IF parent(cfg.dockerfile.value).some
                       THEN parent(cfg.dockerfile.value).value
                       ELSE cfg.workspace_folder,
                       <<"devcontainer-">> \o project_slug \o <<":latest">>))
    ELSE Err(ConfigurationError(
               <<"devcontainer.json must define either image or dockerFile">>))

\* prepare: the ProviderPreparation it returns.
prepared_from_raw_name(cfg, project_slug, image) ==
    [image |-> image,
     container_name |-> <<"devcontainer-">> \o cfg.project_name,
     project_slug |-> project_slug,
     networks |-> << <<"devcontainer-">> \o cfg.project_name \o <<"-network">> >>,
     volumes |-> << [name |-> <<"devcontainer-">> \o cfg.project_name \o <<"-data">>,
                     mount_path |-> "/workspaces/.devcontainer"] >>,
     workspace_mount_path |-> <<"/workspaces/">> \o project_slug]

prepared_mounting_container_folder(cfg, project_slug, image) ==
    [image |-> image,
     container_name |-> <<"devcontainer-">> \o project_slug,
     project_slug |-> project_slug,
     networks |-> << <<"devcontainer-">> \o project_slug \o <<"-network">> >>,
     volumes |-> << [name |-> <<"devcontainer-">> \o project_slug \o <<"-data">>,
                     mount_path |-> "/workspaces/.devcontainer"] >>,
     workspace_mount_path |-> IF cfg.container_workspace_folder.some
                              THEN cfg.container_workspace_folder.value
                              ELSE <<"/workspaces/">> \o project_slug]

prepared_naming_fallback_container(cfg, project_slug, image) ==
    [image |-> image,
     container_name |-> <<"devcontainer-">> \o FallbackSlug,
     project_slug |-> project_slug,
     networks |-> << <<"devcontainer-">> \o project_slug \o <<"-network">> >>,
     volumes |-> << [name |-> <<"devcontainer-">> \o project_slug \o <<"-data">>,
                     mount_path |-> "/workspaces/.devcontainer"] >>,
     workspace_mount_path |-> <<"/workspaces/">> \o project_slug]

prepared_naming_fallback_volume(cfg, project_slug, image) ==
    [image |-> image,
     container_name |-> <<"devcontainer-">> \o project_slug,
     project_slug |-> project_slug,
     networks |-> << <<"devcontainer-">> \o project_slug \o <<"-network">> >>,
     volumes |-> << [name |-> <<"devcontainer-">> \o FallbackSlug \o <<"-data">>,
                     mount_path |-> "/workspaces/.devcontainer"] >>,
     workspace_mount_path |-> <<"/workspaces/">> \o project_slug]

prepared(cfg, project_slug, image) ==
    [image |-> image,
     container_name |-> <<"devcontainer-">> \o project_slug,
     project_slug |-> project_slug,
     networks |-> << <<"devcontainer-">> \o project_slug \o <<"-network">> >>,
     volumes |-> << [name |-> <<"devcontainer-">> \o project_slug \o <<"-data">>,
                     mount_path |-> "/workspaces/.devcontainer"] >>,
     workspace_mount_path |-> <<"/workspaces/">> \o project_slug]

\* The errors of DockerCli::new and DockerCli::verify_binary.
locate_error == ProviderError(<<"Failed to locate docker binary '", "docker", "'">>)
verify_error(output) ==
    ProviderError(<<"Failed to execute '", "docker", " --version': ">> \o trim(output.stderr))
workspace_error(path) ==
    ConfigurationError(<<"Workspace folder ">> \o path \o <<" does not exist">>)

\* DockerProvider::prepare, given whether the docker binary was located and
\* what `docker version` answered.
prepare(cfg, fs, located, version) ==
    IF ~located THEN Err(locate_error)
    ELSE IF ~version.spawned THEN Err(spawn_error(VersionArgs))
    ELSE IF ~success(version) THEN Err(verify_error(version))
    ELSE IF cfg.workspace_folder \notin fs THEN Err(workspace_error(cfg.workspace_folder))
    ELSE LET project_slug == sanitize_name(cfg.project_name)
             image == choose_image(cfg, fs, project_slug)
         IN  IF image.kind = "Err" THEN image
             ELSE Ok(prepared(cfg, project_slug, image.outcome))

PrepareInit ==
    /\ ExecOff
    /\ engine = [network |-> {}, volume |-> {}]
    /\ preparation = [container_name |-> "", workspace_mount_path |-> "",
                      networks |-> <<>>, volumes |-> <<>>]
    /\ d_op = "none"
    /\ d_pc = "idle"
    /\ d_idx = 0
    /\ commands = <<>>
    /\ d_result = Running
    /\ previous = NoCall
    /\ containers = {}
    /\ next_id = 1
    /\ d_args \in {[op |-> "prepare", config |-> c] : c \in PrepareConfigValues}
    /\ filesystem \in SUBSET ({WorkspaceFolder} \cup DockerfilePaths)
    /\ ConversionOff

\* prepare is called with the config and returns.
Prepare ==
    /\ d_pc = "idle"
    /\ d_args.op = "prepare"
    /\ d_op' = "prepare"
    /\ previous' = IF d_op = "none" THEN NoCall
                   ELSE [op |-> d_op, ok |-> d_result.kind = "Ok", created |-> FALSE,
                         returned |-> d_result]
    /\ \E located \in BOOLEAN : \E version \in version_outputs :
         LET outcome == prepare(d_args.config, filesystem, located, version)
         IN  /\ commands' = IF located
                            THEN <<[argv |-> VersionArgs, output |-> version]>>
                            ELSE <<>>
             /\ d_result' = outcome
             /\ preparation' = IF outcome.kind = "Ok" THEN outcome.outcome
                               ELSE preparation
    /\ UNCHANGED <<execVars, engine, d_pc, d_idx, containers, next_id, d_args,
                   filesystem, fn_input, fn_output>>

\* The host changes between two calls: a path appears or disappears.
FilesystemChange ==
    /\ d_pc = "idle"
    /\ d_args.op = "prepare"
    /\ \E path \in {WorkspaceFolder} \cup DockerfilePaths :
         filesystem' = IF path \in filesystem THEN filesystem \ {path}
                       ELSE filesystem \cup {path}
    /\ UNCHANGED <<execVars, engine, preparation, d_op, d_pc, d_idx, commands, d_result,
                   previous, containers, next_id, d_args, fn_input, fn_output>>

PrepareNext == Prepare \/ FilesystemChange

\* --------------------------------------- create, start, exec, stop, cleanup

\* What the container operations leave alone.
ContainerFrame == UNCHANGED <<execVars, previous, filesystem, fn_input, fn_output>>

no_identifier_error == ProviderError(<<"Container has no identifier">>)
path_error(path) == ProviderError(<<"Unable to represent path ", path, " as UTF-8">>)

\* What create_container does with the output of its `container rm --force`:
\* a failure is logged, and the create follows whatever the output.
remove_decision_failing_on_absence(output) ==
    IF success(output) THEN "create" ELSE "error"

remove_decision_failing_on_warning(output) ==
    IF ~success(output) /\ ~contains(output.stderr, "No such container")
       /\ output.stderr # <<>>
    THEN "error" ELSE "create"

remove_decision(output) == "create"

\* The arguments of create_container's `docker create`.
create_args(cfg, prep, image_reference) ==
    <<"create", "--name", prep.container_name, "--hostname", prep.container_name>>
    \o (IF prep.networks # <<>> THEN <<"--network", prep.networks[1]>> ELSE <<>>)
    \o <<"--label", <<"devcontainer.project=", cfg.project_name>>,
         "--workdir", prep.workspace_mount_path,
         "--mount", <<"type=bind,src=", cfg.workspace_folder, ",dst=",
                      prep.workspace_mount_path>> >>
    \o [i \in 1..(2 * Len(prep.volumes)) |->
           IF i % 2 = 1 THEN "--mount"
           ELSE <<"type=volume,src=", prep.volumes[i \div 2].name, ",dst=",
                  prep.volumes[i \div 2].mount_path>>]
    \o <<image_reference, "sleep", "infinity">>

\* An operation is called: the log starts afresh.
ContainerCall(op, args) ==
    /\ d_pc = "idle"
    /\ d_op' = op
    /\ d_args' = args
    /\ commands' = <<>>
    /\ d_idx' = 1
    /\ UNCHANGED <<engine, preparation, containers, next_id>>
    /\ ContainerFrame

\* self.cli()? and, where the operation needs one, the container's identifier.
Located(needs_identifier, handle, first) ==
    \E located \in BOOLEAN :
        IF ~located THEN Fail(locate_error)
        ELSE IF needs_identifier /\ ~identifier_of(handle).some
        THEN Fail(no_identifier_error)
        ELSE d_pc' = first /\ d_result' = Running

create_container_begin ==
    /\ next_id <= MaxCreated
    /\ ContainerCall("create_container",
                     [op |-> "create_container", image_reference |-> "example:image"])
    /\ Located(FALSE, None, "rm")

\* `docker container rm --force <container name>`
create_container_remove ==
    /\ d_op = "create_container"
    /\ d_pc = "rm"
    /\ LET identifier == preparation.container_name
           args == <<"container", "rm", "--force", identifier>>
       IN  \E output \in container_rm_outputs(containers, identifier) :
             /\ commands' = Append(commands, [argv |-> args, output |-> output])
             /\ containers' = IF output.spawned /\ success(output)
                              THEN removed_container(containers, identifier)
                              ELSE containers
             /\ IF ~output.spawned THEN Fail(spawn_error(args))
                ELSE IF remove_decision(output) = "create"
                THEN d_pc' = "create" /\ UNCHANGED d_result
                ELSE Fail(ProviderError(<<"Failed to remove container ", identifier>>))
    /\ UNCHANGED <<engine, preparation, next_id, d_op, d_args, d_idx>>
    /\ ContainerFrame

\* The RunningContainer create_container returns: the id is what the engine
\* printed, trimmed, the name is the prepared container name.
running_container_without_name(stdout, name) ==
    [id |-> IF trim(stdout) = <<>> THEN None ELSE Some(trim(stdout)[1]), name |-> None]

running_container(stdout, name) ==
    [id |-> IF trim(stdout) = <<>> THEN None ELSE Some(trim(stdout)[1]),
     name |-> Some(name)]

\* The paths are turned into strings, then `docker create ...` through
\* run_expect_success; the id is what it printed.
create_container_create ==
    /\ d_op = "create_container"
    /\ d_pc = "create"
    /\ \E utf8 \in BOOLEAN :
         IF ~utf8
         THEN /\ Fail(path_error(config.workspace_folder))
              /\ UNCHANGED <<commands, containers, next_id>>
         ELSE LET args == create_args(config, preparation, d_args.image_reference)
                  name == preparation.container_name
              IN  \E output \in container_create_outputs(containers, name,
                                                          ToString(next_id)) :
                    /\ commands' = Append(commands, [argv |-> args, output |-> output])
                    /\ IF ~output.spawned
                       THEN Fail(spawn_error(args)) /\ UNCHANGED <<containers, next_id>>
                       ELSE IF ~success(output)
                       THEN /\ Fail(ensure_success_error(args, output))
                            /\ UNCHANGED <<containers, next_id>>
                       ELSE /\ containers' =
                                 created_container(containers, name, ToString(next_id))
                            /\ next_id' = next_id + 1
                            /\ d_result' = Ok(running_container(output.stdout, name))
                            /\ d_pc' = "idle"
    /\ UNCHANGED <<engine, preparation, d_op, d_args, d_idx>>
    /\ ContainerFrame

start_container_begin ==
    \E handle \in RunningContainerHandles :
        /\ ContainerCall("start_container",
                         [op |-> "start_container", container |-> handle])
        /\ Located(TRUE, handle, "start")

\* `docker start <identifier>` through run_expect_success
start_container_run ==
    /\ d_op = "start_container"
    /\ d_pc = "start"
    /\ LET identifier == identifier_of(d_args.container).value
           args == <<"start", identifier>>
       IN  \E output \in container_start_outputs(containers, identifier) :
             /\ commands' = Append(commands, [argv |-> args, output |-> output])
             /\ IF ~output.spawned THEN Fail(spawn_error(args)) /\ UNCHANGED containers
                ELSE IF ~success(output)
                THEN Fail(ensure_success_error(args, output)) /\ UNCHANGED containers
                ELSE /\ containers' = started_container(containers, identifier)
                     /\ d_result' = Ok("()")
                     /\ d_pc' = "idle"
    /\ UNCHANGED <<engine, preparation, next_id, d_op, d_args, d_idx>>
    /\ ContainerFrame

\* exec: if command.is_empty() { return Ok(ExecResult::default()); }
exec_is_noop_never(command) == FALSE

exec_is_noop(command) == command = <<>>

exec_begin ==
    \E handle \in RunningContainerHandles : \E command \in ExecCommands :
        /\ ContainerCall("exec",
                         [op |-> "exec", container |-> handle, command |-> command])
        /\ IF exec_is_noop(command)
           THEN d_result' = Ok(ExecResultDefault) /\ d_pc' = "idle"
           ELSE Located(TRUE, handle, "exec")

\* `docker exec <identifier> <command>`: whatever the exit code, an ExecResult
exec_run ==
    /\ d_op = "exec"
    /\ d_pc = "exec"
    /\ LET identifier == identifier_of(d_args.container).value
           args == <<"exec", identifier>> \o d_args.command
       IN  \E output \in container_exec_outputs(containers, identifier) :
             /\ commands' = Append(commands, [argv |-> args, output |-> output])
             /\ IF ~output.spawned THEN Fail(spawn_error(args))
                ELSE /\ d_result' = Ok([exit_code |-> output.code, stdout |-> <<>>,
                                         stderr |-> output.stderr])
                     /\ d_pc' = "idle"
    /\ UNCHANGED <<engine, preparation, containers, next_id, d_op, d_args, d_idx>>
    /\ ContainerFrame

\* stop_container's identifier: the name, else the id, else the prepared name.
stop_identifier(handle, prep) ==
    IF identifier_of(handle).some THEN identifier_of(handle).value
    ELSE prep.container_name

\* What stop_container does with the output of `container stop`.
stop_decision(output) ==
    IF success(output) THEN "stopped"
    ELSE IF contains(output.stderr, "No such container")
            \/ contains(output.stderr, "is not running")
    THEN "absent"
    ELSE "error"

stop_container_begin ==
    \E handle \in RunningContainerHandles :
        /\ ContainerCall("stop_container",
                         [op |-> "stop_container", container |-> handle])
        /\ Located(FALSE, handle, "stop")

\* `docker container stop <identifier>`
stop_container_run ==
    /\ d_op = "stop_container"
    /\ d_pc = "stop"
    /\ LET identifier == stop_identifier(d_args.container, preparation)
           args == <<"container", "stop", identifier>>
       IN  \E output \in container_stop_outputs(containers, identifier) :
             /\ commands' = Append(commands, [argv |-> args, output |-> output])
             /\ containers' = IF output.spawned /\ success(output)
                              THEN stopped_container(containers, identifier)
                              ELSE containers
             /\ IF ~output.spawned THEN Fail(spawn_error(args))
                ELSE IF stop_decision(output) = "error"
                THEN Fail(ProviderError(<<"Failed to stop container ", identifier, ": ">>
                                        \o trim(output.stderr)))
                ELSE d_result' = Ok("()") /\ d_pc' = "idle"
    /\ UNCHANGED <<engine, preparation, next_id, d_op, d_args, d_idx>>
    /\ ContainerFrame

\* What cleanup does with the output of a removal.
removal_decision_failing_on_absence(output, pattern) ==
    IF success(output) THEN "removed" ELSE "error"

removal_decision(output, pattern) ==
    IF success(output) THEN "removed"
    ELSE IF contains(output.stderr, pattern) THEN "absent"
    ELSE "error"

\* if options.remove_volumes
volumes_requested_always(cleanup_options) == TRUE

volumes_requested(cleanup_options) == cleanup_options.remove_volumes

cleanup_begin ==
    \E cleanup_options \in ProviderCleanupOptionsValues :
        /\ ContainerCall("cleanup", [op |-> "cleanup", options |-> cleanup_options])
        /\ Located(FALSE, None, "rm_container")

\* `docker container rm --force [--volumes] <container name>`
cleanup_remove_container ==
    /\ d_op = "cleanup"
    /\ d_pc = "rm_container"
    /\ LET name == preparation.container_name
           args == <<"container", "rm", "--force">>
                   \o (IF volumes_requested(d_args.options) THEN <<"--volumes">> ELSE <<>>)
                   \o <<name>>
       IN  \E output \in container_rm_outputs(containers, name) :
             /\ commands' = Append(commands, [argv |-> args, output |-> output])
             /\ containers' = IF output.spawned /\ success(output)
                              THEN removed_container(containers, name)
                              ELSE containers
             /\ IF ~output.spawned THEN Fail(spawn_error(args)) /\ UNCHANGED d_idx
                ELSE IF removal_decision(output, "No such container") = "error"
                THEN /\ Fail(ProviderError(<<"Failed to remove container ", name, ": ">>
                                           \o trim(output.stderr)))
                     /\ UNCHANGED d_idx
                ELSE d_pc' = "rm_network" /\ d_idx' = 1 /\ UNCHANGED d_result
    /\ UNCHANGED <<engine, preparation, next_id, d_op, d_args>>
    /\ ContainerFrame

\* The loops over the declared networks and volumes: `docker <kind> rm <name>`
CleanupRemove(kind) ==
    /\ d_op = "cleanup"
    /\ d_pc = IF kind = "network" THEN "rm_network" ELSE "rm_volume"
    /\ d_idx <= Len(resource_names(preparation, kind))
    /\ LET name == resource_names(preparation, kind)[d_idx]
           args == <<kind, "rm", name>>
       IN  \E output \in resource_rm_outputs(engine, kind, name) :
             /\ commands' = Append(commands, [argv |-> args, output |-> output])
             /\ engine' = IF output.spawned /\ success(output)
                          THEN removed(engine, kind, name)
                          ELSE engine
             /\ IF ~output.spawned THEN Fail(spawn_error(args)) /\ UNCHANGED d_idx
                ELSE IF removal_decision(output, AbsencePattern(kind)) = "error"
                THEN /\ Fail(ProviderError(<<"Failed to remove docker ", kind, " ", name,
                                             ": ">> \o trim(output.stderr)))
                     /\ UNCHANGED d_idx
                ELSE d_idx' = d_idx + 1 /\ UNCHANGED <<d_pc, d_result>>
    /\ UNCHANGED <<preparation, containers, next_id, d_op, d_args>>
    /\ ContainerFrame

cleanup_remove_network == CleanupRemove("network")
cleanup_remove_volume == CleanupRemove("volume")

\* The network loop is over: on to the volumes if they are to be removed.
cleanup_networks_done ==
    /\ d_op = "cleanup"
    /\ d_pc = "rm_network"
    /\ d_idx > Len(preparation.networks)
    /\ IF volumes_requested(d_args.options)
       THEN d_pc' = "rm_volume" /\ d_idx' = 1 /\ UNCHANGED d_result
       ELSE d_pc' = "idle" /\ d_result' = Ok("()") /\ UNCHANGED d_idx
    /\ UNCHANGED <<engine, preparation, containers, next_id, d_op, d_args, commands>>
    /\ ContainerFrame

\* The volume loop is over: Ok(()).
cleanup_end ==
    /\ d_op = "cleanup"
    /\ d_pc = "rm_volume"
    /\ d_idx > Len(preparation.volumes)
    /\ d_pc' = "idle"
    /\ d_result' = Ok("()")
    /\ UNCHANGED <<engine, preparation, containers, next_id, d_op, d_args, commands, d_idx>>
    /\ ContainerFrame

\* The engine and the preparation the container operations start from: a
\* container of the prepared name may be left over from an earlier run.
ContainerPreparationValues ==
    {p \in ProviderPreparationValues :
        /\ p.networks \in {<<>>, <<"devcontainer-demo-network">>,
                           <<"devcontainer-other-network", "devcontainer-demo-network">>}
        /\ resource_names(p, "volume")
               \in {<<>>, <<"devcontainer-demo-data">>,
                    <<"devcontainer-other-data", "devcontainer-demo-data">>}}

ContainerInit ==
    /\ ExecOff
    /\ engine \in [network : SUBSET NetworkNames, volume : SUBSET VolumeNames]
    /\ preparation \in ContainerPreparationValues
    /\ d_op = "none"
    /\ d_pc = "idle"
    /\ d_idx = 0
    /\ commands = <<>>
    /\ d_result = Running
    /\ previous = NoCall
    /\ containers \in {{}} \cup {{Container("devcontainer-demo", "0", r)} : r \in BOOLEAN}
    /\ next_id = 1
    /\ d_args = NoArgs
    /\ filesystem = {}
    /\ ConversionOff

ContainerNext ==
    \/ create_container_begin \/ create_container_remove \/ create_container_create
    \/ start_container_begin \/ start_container_run
    \/ exec_begin \/ exec_run
    \/ stop_container_begin \/ stop_container_run
    \/ cleanup_begin \/ cleanup_remove_container \/ cleanup_remove_network
    \/ cleanup_networks_done \/ cleanup_remove_volume \/ cleanup_end

\* --------------------------------------------- the up and exec commands

\* An error of resolve: the configuration file is not found.
resolve_error ==
    ConfigurationError(<<"Failed to locate devcontainer.json under ">> \o WorkspaceFolder)

\* The LifecyclePlanOptions ExecArgs::run builds its plan with.
ExecPlanOptions ==
    [skip_post_create |-> Some("exec command requested"),
     skip_post_attach |-> Some("exec command requested")]

\* The LifecyclePlanOptions UpArgs::run builds from its two flags.
up_options(skip_post_create, skip_post_attach) ==
    [skip_post_create |-> IF skip_post_create
                          THEN Some("--skip-post-create flag set") ELSE None,
     skip_post_attach |-> IF skip_post_attach
                          THEN Some("--skip-post-attach flag set") ELSE None]

\* UpArgs::run: the config is resolved, the plan built from the flags and
\* executed; what execute returns ends the command.
up_begin ==
    /\ pc = "up"
    /\ \E resolves \in BOOLEAN :
         IF resolves
         THEN /\ plan' = for_up(config, up_options(d_args.skip_post_create,
                                                   d_args.skip_post_attach))
              /\ pc' = "prepare"
              /\ UNCHANGED result
         ELSE pc' = "failed" /\ result' = Err(resolve_error) /\ UNCHANGED plan
    /\ UNCHANGED <<config, options, inFlight, calls, returns, executed_phases, container,
                   pending, exec_result>>
    /\ UNCHANGED dockerVars

empty_command_error ==
    ConfigurationError(<<"devcontainer exec requires a command to run">>)

\* if result.exit_code != 0 { return Err(Provider("Command exited with status ..")) }
command_failed_if_positive(exit_code) == exit_code > 0

command_failed(exit_code) == exit_code # 0

exit_status_error(exit_code) ==
    ProviderError(<<"Command exited with status ", ToString(exit_code)>>)

\* ExecArgs::run: an empty command is refused at once; otherwise the config
\* is resolved and the plan built with both hooks skipped.
exec_command_begin ==
    /\ pc = "exec_command"
    /\ IF d_args.command = <<>>
       THEN pc' = "failed" /\ result' = Err(empty_command_error) /\ UNCHANGED plan
       ELSE \E resolves \in BOOLEAN :
              IF resolves
              THEN /\ plan' = for_up(config, ExecPlanOptions)
                   /\ pc' = "prepare"
                   /\ UNCHANGED result
              ELSE pc' = "failed" /\ result' = Err(resolve_error) /\ UNCHANGED plan
    /\ UNCHANGED <<config, options, inFlight, calls, returns, executed_phases, container,
                   pending, exec_result>>
    /\ UNCHANGED dockerVars

\* execute returned Ok: executor.provider().exec(&outcome.container, &self.command)
exec_command_call ==
    /\ d_args.op = "exec"
    /\ pc = "done"
    /\ inFlight = {}
    /\ inFlight' = {"exec"}
    /\ calls' = Append(calls, Call("exec", "", None, d_args.command))
    /\ pc' = "exec"
    /\ UNCHANGED <<config, options, plan, returns, executed_phases, container,
                   pending, exec_result, result>>
    /\ UNCHANGED dockerVars

\* exec returned an error: `?` returns it.
exec_command_error ==
    /\ pc = "exec"
    /\ inFlight = {"exec"}
    /\ \E r \in ProviderResults :
         /\ ~r.ok
         /\ inFlight' = {}
         /\ returns' = Append(returns, [ok |-> FALSE, exit_code |-> 0])
         /\ pc' = "failed"
         /\ result' = Err(r.error)
    /\ UNCHANGED <<config, options, plan, calls, executed_phases, container, pending,
                   exec_result>>
    /\ UNCHANGED dockerVars

\* exec returned an ExecResult: its output is printed, and a non-zero exit
\* code is returned as a provider error.
exec_command_return ==
    /\ pc = "exec"
    /\ inFlight = {"exec"}
    /\ \E r \in ExecResults :
         /\ inFlight' = {}
         /\ returns' = Append(returns, [ok |-> TRUE, exit_code |-> r.exit_code])
         /\ exec_result' = Some(r)
         /\ IF command_failed(r.exit_code)
            THEN pc' = "failed" /\ result' = Err(exit_status_error(r.exit_code))
            ELSE pc' = "exited" /\ result' = Ok("()")
    /\ UNCHANGED <<config, options, plan, calls, executed_phases, container, pending>>
    /\ UNCHANGED dockerVars

\* The arguments of `devcontainer up` and of `devcontainer exec`.
CliArgs ==
    {[op |-> "up", skip_post_create |-> c, skip_post_attach |-> a] : c, a \in BOOLEAN}
    \cup {[op |-> "exec", command |-> c] : c \in ExecCommands}

\* `devcontainer up` or `devcontainer exec -- <command>` is started.
CliInit ==
    /\ config \in {c \in ResolvedConfigValues :
                      /\ c.image_reference.some
                      /\ c.post_create_command \in PlanCommandValues
                      /\ c.post_attach_command \in PlanCommandValues}
    /\ d_args \in CliArgs
    /\ options = IF d_args.op = "exec"
                 THEN ExecPlanOptions
                 ELSE up_options(d_args.skip_post_create, d_args.skip_post_attach)
    /\ plan = <<>>
    /\ pc = IF d_args.op = "exec" THEN "exec_command" ELSE "up"
    /\ inFlight = {}
    /\ calls = <<>>
    /\ returns = <<>>
    /\ executed_phases = <<>>
    /\ container = None
    /\ pending = <<>>
    /\ exec_result = None
    /\ result = Running
    /\ EngineOff
    /\ containers = {}
    /\ next_id = 1
    /\ filesystem = {}
    /\ ConversionOff

CliNext ==
    \/ up_begin
    \/ exec_command_begin
    \/ ExecuteNext
    \/ exec_command_call \/ exec_command_error \/ exec_command_return

\* ------------------------------------------------------- the down command

\* DownArgs::run: resolver.resolve()?
down_resolve ==
    /\ pc = "down"
    /\ \E resolves \in BOOLEAN :
         IF resolves
         THEN pc' = "prepare" /\ UNCHANGED result
         ELSE pc' = "failed" /\ result' = Err(resolve_error)
    /\ UNCHANGED <<config, options, plan, inFlight, calls, returns, executed_phases,
                   container, pending, exec_result>>
    /\ UNCHANGED dockerVars

\* provider.prepare(&resolved).await?: the preparation of the project, or an
\* error of prepare.
down_prepare ==
    /\ pc = "prepare"
    /\ d_op' = "prepare"
    /\ \E outcome \in {Ok(p) : p \in ContainerPreparationValues}
                       \cup {Err(locate_error), Err(workspace_error(WorkspaceFolder))} :
         /\ d_result' = outcome
         /\ returns' = Append(returns, [op |-> "prepare", ok |-> outcome.kind = "Ok"])
         /\ IF outcome.kind = "Ok"
            THEN preparation' = outcome.outcome /\ pc' = "stop_container"
                 /\ UNCHANGED result
            ELSE pc' = "failed" /\ result' = outcome /\ UNCHANGED preparation
    /\ UNCHANGED <<config, options, plan, inFlight, calls, executed_phases,
                   container, pending, exec_result>>
    /\ UNCHANGED <<engine, d_pc, d_idx, commands, previous, hostVars>>

\* provider.stop_container(&resolved, &preparation, &container) with
\* RunningContainer { id: None, name: Some(preparation.container_name) }
down_stop_container ==
    /\ pc = "stop_container"
    /\ d_op = "prepare"
    /\ stop_container_begin
    /\ d_args'.container = [id |-> None, name |-> Some(preparation.container_name)]

\* The `?` after stop_container: an error ends the command, Ok moves it on to
\* cleanup.
down_stop_returned_ignoring_failure ==
    /\ pc = "stop_container"
    /\ d_op = "stop_container"
    /\ d_pc = "idle"
    /\ returns' = Append(returns, [op |-> "stop_container", ok |-> d_result.kind = "Ok"])
    /\ pc' = "cleanup"
    /\ UNCHANGED <<config, options, plan, inFlight, calls, executed_phases,
                   container, pending, exec_result, result>>
    /\ UNCHANGED dockerVars

down_stop_returned ==
    /\ pc = "stop_container"
    /\ d_op = "stop_container"
    /\ d_pc = "idle"
    /\ returns' = Append(returns, [op |-> "stop_container", ok |-> d_result.kind = "Ok"])
    /\ IF d_result.kind = "Ok"
       THEN pc' = "cleanup" /\ UNCHANGED result
       ELSE pc' = "failed" /\ result' = d_result
    /\ UNCHANGED <<config, options, plan, inFlight, calls, executed_phases,
                   container, pending, exec_result>>
    /\ UNCHANGED dockerVars

\* provider.cleanup(&resolved, &preparation, &options) with the options of
\* the --remove-volumes and --remove-unknown flags.
down_cleanup ==
    /\ pc = "cleanup"
    /\ d_op = "stop_container"
    /\ cleanup_begin

\* The `?` after cleanup, then Ok(()).
down_cleanup_returned ==
    /\ pc = "cleanup"
    /\ d_op = "cleanup"
    /\ d_pc = "idle"
    /\ returns' = Append(returns, [op |-> "cleanup", ok |-> d_result.kind = "Ok"])
    /\ IF d_result.kind = "Ok"
       THEN pc' = "done" /\ result' = Ok("()")
       ELSE pc' = "failed" /\ result' = d_result
    /\ UNCHANGED <<config, options, plan, inFlight, calls, executed_phases,
                   container, pending, exec_result>>
    /\ UNCHANGED dockerVars

\* `devcontainer down` is started against an engine that may hold the
\* project's container, networks and volumes.
DownInit ==
    /\ config = CHOOSE c \in ResolvedConfigValues :
                   ~c.post_create_command.some /\ ~c.post_attach_command.some
                   /\ c.image_reference.some
    /\ options = [skip_post_create |-> None, skip_post_attach |-> None]
    /\ plan = <<>>
    /\ pc = "down"
    /\ inFlight = {}
    /\ calls = <<>>
    /\ returns = <<>>
    /\ executed_phases = <<>>
    /\ container = None
    /\ pending = <<>>
    /\ exec_result = None
    /\ result = Running
    /\ engine \in [network : SUBSET NetworkNames, volume : SUBSET VolumeNames]
    /\ preparation = [container_name |-> "", workspace_mount_path |-> "",
                      networks |-> <<>>, volumes |-> <<>>]
    /\ d_op = "none"
    /\ d_pc = "idle"
    /\ d_idx = 0
    /\ commands = <<>>
    /\ d_result = Running
    /\ previous = NoCall
    /\ containers \in {{}} \cup {{Container("devcontainer-demo", "0", r)} : r \in BOOLEAN}
    /\ next_id = 1
    /\ d_args = NoArgs
    /\ filesystem = {}
    /\ ConversionOff

DownNext ==
    \/ down_resolve \/ down_prepare
    \/ down_stop_container \/ stop_container_run \/ down_stop_returned
    \/ down_cleanup \/ cleanup_remove_container \/ cleanup_remove_network
    \/ cleanup_networks_done \/ cleanup_remove_volume \/ cleanup_end
    \/ down_cleanup_returned

\* ----------------------------------------------------- the create command

\* ProviderImage::reference: what build_image returns for the image.
reference_of(image) == IF image.kind = "Reference" THEN image.reference ELSE image.tag

\* The `docker create` command of a run for a config: the preparation of
\* prepare and the image reference of build_image, handed to
\* create_container by execute. The docker binary and the paths exist.
create_command(cfg) ==
    LET preparing == prepare(cfg, {cfg.workspace_folder} \cup DockerfilePaths, TRUE,
                             CommandOutput(0, <<>>))
    IN  IF preparing.kind = "Err" THEN preparing
        ELSE Ok(create_args(cfg, preparing.outcome, reference_of(preparing.outcome.image)))

\* Configs that differ in project name, image source, host workspace folder
\* and container-side workspace folder.
ContainerFolderValues ==
    {None, Some(<<"/", "srv", "/", "app">>), Some(<<"/", "workspaces", "/", "other">>)}
CreateConfigValues ==
    [project_name : PrepareProjectNames \cup {<<"d", "e", "m", "o">>, <<"-">>},
     workspace_folder : {WorkspaceFolder, <<"/", "home", "dev", "demo">>},
     container_workspace_folder : ContainerFolderValues,
     image_reference : {None, Some("example:image")},
     dockerfile : {None} \cup {Some(d) : d \in DockerfilePaths}]

CreateCommandInit ==
    /\ ExecOff
    /\ EngineOff
    /\ ContainerOff
    /\ filesystem = {}
    /\ fn_input \in {[some |-> TRUE, fn |-> "create_command", arg |-> c] :
                        c \in CreateConfigValues}
    /\ fn_output = None

CreateCommand ==
    /\ fn_input.some
    /\ fn_input.fn = "create_command"
    /\ fn_output = None
    /\ fn_output' = Some(create_command(fn_input.arg))
    /\ UNCHANGED <<execVars, engine, preparation, d_op, d_pc, d_idx, commands, d_result,
                   previous, containers, next_id, d_args, filesystem, fn_input>>

\* ------------------------------------------- two runs against one engine

\* Two invocations of the tool run against the same docker engine. The run
\* that holds the processor has its state in the provider's variables; the
\* state of the other is kept aside until the scheduler switches to it. A
\* switch can come between any two docker commands.

\* The project names of the two runs: two of them share a slug, one has a
\* slug of its own, one falls back to the default slug.
RaceProjectNames == {<<"A", "b">>, <<"A", "b", " ">>, <<"b", "7">>, <<" ">>}

\* The image of a run: built from a Dockerfile, or a declared reference,
\* which may be any text, the tag another project builds included.
RaceConfigValues ==
    [project_name : RaceProjectNames,
     workspace_folder : {WorkspaceFolder},
     image_reference : {None, Some("example:image"), Some("devcontainer-ab:latest")},
     dockerfile : {Some(<<"/", "workspace", ".devcontainer", "Dockerfile">>)}]

\* format!: the text of a name prepare composes, as the engine receives it.
name_text(name) ==
    CASE name = <<"devcontainer-", "a", "b">> -> "devcontainer-ab"
      [] name = <<"devcontainer-", "a", "b", "-network">> -> "devcontainer-ab-network"
      [] name = <<"devcontainer-", "a", "b", "-data">> -> "devcontainer-ab-data"
      [] name = <<"devcontainer-", "a", "b", ":latest">> -> "devcontainer-ab:latest"
      [] name = <<"devcontainer-", "b", "7">> -> "devcontainer-b7"
      [] name = <<"devcontainer-", "b", "7", "-network">> -> "devcontainer-b7-network"
      [] name = <<"devcontainer-", "b", "7", "-data">> -> "devcontainer-b7-data"
      [] name = <<"devcontainer-", "b", "7", ":latest">> -> "devcontainer-b7:latest"
      [] name = <<"devcontainer-">> \o FallbackSlug -> "devcontainer-devcontainer"
      [] name = <<"devcontainer-">> \o FallbackSlug \o <<"-network">>
             -> "devcontainer-devcontainer-network"
      [] name = <<"devcontainer-">> \o FallbackSlug \o <<"-data">>
             -> "devcontainer-devcontainer-data"
      [] name = <<"devcontainer-">> \o FallbackSlug \o <<":latest">>
             -> "devcontainer-devcontainer:latest"

\* The ProviderPreparation of a run: what prepare returns for its config when
\* the docker binary and the paths exist, its names as texts.
run_preparation(cfg) ==
    LET prep == prepare(cfg, {cfg.workspace_folder} \cup DockerfilePaths, TRUE,
                        CommandOutput(0, <<>>)).outcome
    IN  [image |-> IF prep.image.kind = "Build"
                   THEN [prep.image EXCEPT !.tag = name_text(@)]
                   ELSE prep.image,
         container_name |-> name_text(prep.container_name),
         project_slug |-> prep.project_slug,
         networks |-> [i \in 1..Len(prep.networks) |-> name_text(prep.networks[i])],
         volumes |-> [i \in 1..Len(prep.volumes) |->
                         [prep.volumes[i] EXCEPT !.name = name_text(@)]],
         workspace_mount_path |-> prep.workspace_mount_path]

\* The state of a run that has not called the provider yet.
Waiting(run, cfg) ==
    [run |-> run, config |-> cfg, preparation |-> run_preparation(cfg),
     d_op |-> "none", d_pc |-> "idle", d_idx |-> 0, commands |-> <<>>,
     d_result |-> Running, d_args |-> NoArgs]

\* The scheduler takes the processor from one run and gives it to the other.
switch ==
    /\ previous' = [run |-> 3 - previous.run, config |-> config,
                    preparation |-> preparation, d_op |-> d_op, d_pc |-> d_pc,
                    d_idx |-> d_idx, commands |-> commands, d_result |-> d_result,
                    d_args |-> d_args]
    /\ config' = previous.config
    /\ preparation' = previous.preparation
    /\ d_op' = previous.d_op
    /\ d_pc' = previous.d_pc
    /\ d_idx' = previous.d_idx
    /\ commands' = previous.commands
    /\ d_result' = previous.d_result
    /\ d_args' = previous.d_args
    /\ UNCHANGED <<options, plan, pc, inFlight, calls, returns, executed_phases,
                   container, pending, exec_result, result>>
    /\ UNCHANGED <<engine, containers, next_id, filesystem, fn_input, fn_output>>

\* execute: provider.create_container(config, &preparation, &image_reference)
lifecycle_create_container ==
    /\ d_op = "none"
    /\ ContainerCall("create_container",
                     [op |-> "create_container",
                      image_reference |-> reference_of(preparation.image)])
    /\ Located(FALSE, None, "rm")

\* execute: provider.start_container(&container), the handle being what
\* create_container returned.
lifecycle_start_container ==
    /\ d_op = "create_container"
    /\ d_result.kind = "Ok"
    /\ ContainerCall("start_container",
                     [op |-> "start_container", container |-> d_result.outcome])
    /\ Located(TRUE, d_result.outcome, "start")

\* handle_hook: provider.exec(container, command) for a hook's command.
lifecycle_exec ==
    /\ d_op = "start_container"
    /\ d_result.kind = "Ok"
    /\ ContainerCall("exec",
                     [op |-> "exec", container |-> d_args.container,
                      command |-> <<"true">>])
    /\ Located(TRUE, d_args.container, "exec")

RaceInit ==
    /\ \E first \in {c \in RaceConfigValues :
                        /\ c.project_name = <<"A", "b">>
                        /\ c.image_reference # Some("devcontainer-ab:latest")} :
       \E second \in RaceConfigValues :
         /\ config = first
         /\ preparation = run_preparation(first)
         /\ previous = Waiting(2, second)
    /\ options = [skip_post_create |-> None, skip_post_attach |-> None]
    /\ plan = <<>>
    /\ pc = "off"
    /\ inFlight = {}
    /\ calls = <<>>
    /\ returns = <<>>
    /\ executed_phases = <<>>
    /\ container = None
    /\ pending = <<>>
    /\ exec_result = None
    /\ result = Running
    /\ engine = [network |-> {}, volume |-> {}]
    /\ d_op = "none"
    /\ d_pc = "idle"
    /\ d_idx = 0
    /\ commands = <<>>
    /\ d_result = Running
    /\ containers = {}
    /\ next_id = 1
    /\ d_args = NoArgs
    /\ filesystem = {}
    /\ ConversionOff

RaceNext ==
    \/ switch
    \/ lifecycle_create_container \/ create_container_remove \/ create_container_create
    \/ lifecycle_start_container \/ start_container_run
    \/ lifecycle_exec \/ exec_run

\* ------------------------------------------------------------ forward ports

\* enum ForwardPortDefinition: a number, or a string of these characters.
PortChars == {"0", "6", ":", " ", "+"}
U16Max == 65535
ForwardPortNumber(port) == [kind |-> "Number", port |-> port]
ForwardPortString(value) == [kind |-> "String", value |-> value]
ForwardPortDefinitionValues ==
    {ForwardPortNumber(p) : p \in {0, 3000, U16Max}}
    \cup {ForwardPortString(v) : v \in SeqUpTo(PortChars, MaxPortLen)}

\* struct ForwardPort
ForwardPort(local_port, container_port) ==
    [local_port |-> local_port, container_port |-> container_port, protocol |-> "tcp"]

\* char::to_digit(10)
to_digit(ch) ==
    CASE ch = "0" -> 0 [] ch = "1" -> 1 [] ch = "2" -> 2 [] ch = "3" -> 3 [] ch = "4" -> 4
      [] ch = "5" -> 5 [] ch = "6" -> 6 [] ch = "7" -> 7 [] ch = "8" -> 8 [] ch = "9" -> 9
      [] OTHER -> -1

\* The digit loop of str::parse::<u16>: each digit is multiplied in and added
\* with an overflow check, a character that is no digit ends it.
RECURSIVE parse_digits(_, _)
parse_digits(digits, acc) ==
    IF digits = <<>> THEN [ok |-> TRUE, value |-> acc, error |-> ""]
    ELSE IF to_digit(Head(digits)) < 0
    THEN [ok |-> FALSE, value |-> 0, error |-> "invalid digit found in string"]
    ELSE IF acc * 10 + to_digit(Head(digits)) > U16Max
    THEN [ok |-> FALSE, value |-> 0, error |-> "number too large to fit in target type"]
    ELSE parse_digits(Tail(digits), acc * 10 + to_digit(Head(digits)))

\* str::parse::<u16>: an optional '+', then at least one digit.
parse_u16(text) ==
    IF text = <<>>
    THEN [ok |-> FALSE, value |-> 0, error |-> "cannot parse integer from empty string"]
    ELSE LET digits == IF Head(text) = "+" THEN Tail(text) ELSE text
         IN  IF digits = <<>>
             THEN [ok |-> FALSE, value |-> 0, error |-> "invalid digit found in string"]
             ELSE parse_digits(digits, 0)

\* str::split_once(':'): the text before and after the first ':', if any.
split_once_at_last(text) ==
    IF \E i \in 1..Len(text) : text[i] = ":"
    THEN LET k == CHOOSE i \in 1..Len(text) :
                      text[i] = ":" /\ \A j \in (i + 1)..Len(text) : text[j] # ":"
         IN  Some(<<SubSeq(text, 1, k - 1), SubSeq(text, k + 1, Len(text))>>)
    ELSE None

split_once(text) ==
    IF \E i \in 1..Len(text) : text[i] = ":"
    THEN LET k == CHOOSE i \in 1..Len(text) :
                      text[i] = ":" /\ \A j \in 1..(i - 1) : text[j] # ":"
         IN  Some(<<SubSeq(text, 1, k - 1), SubSeq(text, k + 1, Len(text))>>)
    ELSE None

invalid_port(value, side, error) ==
    ConfigurationError(<<"Invalid forward port value '">> \o value
                       \o <<"': ", side, ": ", error>>)

try_from_swapping_sides(value) ==
    IF value.kind = "Number" THEN Ok(ForwardPort(value.port, value.port))
    ELSE LET trimmed == trim(value.value)
             parts == split_once(trimmed)
             local_part == IF parts.some THEN parts.value[2] ELSE trimmed
             container_part == IF parts.some THEN parts.value[1] ELSE trimmed
             container_port == parse_u16(container_part)
             local_port == parse_u16(local_part)
         IN  IF trimmed = <<>>
             THEN Err(ConfigurationError(
                        <<"Invalid forward port value '': value must not be empty">>))
             ELSE IF ~container_port.ok
             THEN Err(invalid_port(value.value, "container port", container_port.error))
             ELSE IF ~local_port.ok
             THEN Err(invalid_port(value.value, "local port", local_port.error))
             ELSE Ok(ForwardPort(local_port.value, container_port.value))

\* impl TryFrom<ForwardPortDefinition> for ForwardPort
try_from(value) ==
    IF value.kind = "Number" THEN Ok(ForwardPort(value.port, value.port))
    ELSE LET trimmed == trim(value.value)
             parts == split_once(trimmed)
             local_part == IF parts.some THEN parts.value[1] ELSE trimmed
             container_part == IF parts.some THEN parts.value[2] ELSE trimmed
             container_port == parse_u16(container_part)
             local_port == parse_u16(local_part)
         IN  IF trimmed = <<>>
             THEN Err(ConfigurationError(
                        <<"Invalid forward port value '': value must not be empty">>))
             ELSE IF ~container_port.ok
             THEN Err(invalid_port(value.value, "container port", container_port.error))
             ELSE IF ~local_port.ok
             THEN Err(invalid_port(value.value, "local port", local_port.error))
             ELSE Ok(ForwardPort(local_port.value, container_port.value))

\* ForwardPort::try_from applied to a forward-port definition.
PortInit ==
    /\ ExecOff
    /\ EngineOff
    /\ ContainerOff
    /\ filesystem = {}
    /\ fn_input \in {[some |-> TRUE, fn |-> "try_from", arg |-> d] :
                        d \in ForwardPortDefinitionValues}
    /\ fn_output = None

TryFromForwardPort ==
    /\ fn_input.some
    /\ fn_input.fn = "try_from"
    /\ fn_output = None
    /\ fn_output' = Some(try_from(fn_input.arg))
    /\ UNCHANGED <<execVars, engine, preparation, d_op, d_pc, d_idx, commands, d_result,
                   previous, containers, next_id, d_args, filesystem, fn_input>>

\* -------------------------------------------------------------- build_image

\* The images of the engine, and the image sources of a preparation: two
\* direct references and a build from a Dockerfile.
ImageNames == {"example:image", "other:image", "devcontainer-demo:latest"}
BuildPreparationValues ==
    [container_name : {"devcontainer-demo"},
     workspace_mount_path : {"/workspaces/demo"},
     networks : {<<>>},
     volumes : {<<>>},
     image : {Reference("example:image"), Reference("other:image"),
              Build(<<"/", "workspace", ".devcontainer", "Dockerfile">>,
                    <<"/", "workspace", ".devcontainer">>, "devcontainer-demo:latest")}]

\* The engine's answers to `docker image inspect <reference>`.
image_inspect_outputs(eng, reference) ==
    (IF reference \in eng.image
     THEN {CommandOutput(0, <<>>)}
     ELSE {CommandOutput(1, <<"Error response from daemon: ", "No such image", ": ",
                              reference, "\n">>)})
    \cup {DaemonFailure, SpawnFailure}

\* The engine's answers to `docker pull <reference>` and `docker build`: the
\* image is there afterwards, or the registry or the build refuses.
image_pull_outputs ==
    {CommandOutput(0, <<>>),
     CommandOutput(1, <<"Error response from daemon: ", "pull access denied", "\n">>),
     DaemonFailure, SpawnFailure}
image_build_outputs ==
    {CommandOutput(0, <<>>), CommandOutput(1, <<"failed to solve", "\n">>),
     DaemonFailure, SpawnFailure}

\* The engine after a pull or a build that succeeded.
with_image(eng, reference) == [eng EXCEPT !.image = @ \cup {reference}]

\* build_image is called: self.cli()?, then match &preparation.image.
build_image_begin ==
    /\ ContainerCall("build_image", [op |-> "build_image"])
    /\ Located(FALSE, None,
               IF preparation.image.kind = "Reference" THEN "inspect" ELSE "build")

\* `docker image inspect <reference>` through cli.run: the reference is
\* returned when it succeeds, the pull follows when it does not.
build_image_inspect ==
    /\ d_op = "build_image"
    /\ d_pc = "inspect"
    /\ LET reference == preparation.image.reference
           args == <<"image", "inspect", reference>>
       IN  \E output \in image_inspect_outputs(engine, reference) :
             /\ commands' = Append(commands, [argv |-> args, output |-> output])
             /\ IF ~output.spawned THEN Fail(spawn_error(args))
                ELSE IF success(output)
                THEN d_result' = Ok(reference) /\ d_pc' = "idle"
                ELSE d_pc' = "pull" /\ UNCHANGED d_result
    /\ UNCHANGED <<engine, preparation, containers, next_id, d_op, d_args, d_idx>>
    /\ ContainerFrame

\* `docker pull <reference>` through run_expect_success
build_image_pull ==
    /\ d_op = "build_image"
    /\ d_pc = "pull"
    /\ LET reference == preparation.image.reference
           args == <<"pull", reference>>
       IN  \E output \in image_pull_outputs :
             /\ commands' = Append(commands, [argv |-> args, output |-> output])
             /\ IF ~output.spawned THEN Fail(spawn_error(args)) /\ UNCHANGED engine
                ELSE IF ~success(output)
                THEN Fail(ensure_success_error(args, output)) /\ UNCHANGED engine
                ELSE /\ engine' = with_image(engine, reference)
                     /\ d_result' = Ok(reference)
                     /\ d_pc' = "idle"
    /\ UNCHANGED <<preparation, containers, next_id, d_op, d_args, d_idx>>
    /\ ContainerFrame

\* The paths are turned into strings, then `docker build -f <dockerfile> -t
\* <tag> <context>` through run_expect_success; the tag is returned.
build_image_build ==
    /\ d_op = "build_image"
    /\ d_pc = "build"
    /\ LET build == preparation.image
           args == <<"build", "-f", build.dockerfile, "-t", build.tag, build.build_context>>
       IN  \E not_utf8 \in {"none", "dockerfile", "context"} :
             IF not_utf8 = "dockerfile"
             THEN Fail(path_error(build.dockerfile)) /\ UNCHANGED <<commands, engine>>
             ELSE IF not_utf8 = "context"
             THEN Fail(path_error(build.build_context)) /\ UNCHANGED <<commands, engine>>
             ELSE \E output \in image_build_outputs :
                    /\ commands' = Append(commands, [argv |-> args, output |-> output])
                    /\ IF ~output.spawned
                       THEN Fail(spawn_error(args)) /\ UNCHANGED engine
                       ELSE IF ~success(output)
                       THEN Fail(ensure_success_error(args, output)) /\ UNCHANGED engine
                       ELSE /\ engine' = with_image(engine, build.tag)
                            /\ d_result' = Ok(build.tag)
                            /\ d_pc' = "idle"
    /\ UNCHANGED <<preparation, containers, next_id, d_op, d_args, d_idx>>
    /\ ContainerFrame

\* The engine holds any of the images; build_image has not been called.
BuildInit ==
    /\ ExecOff
    /\ engine \in [network : {{}}, volume : {{}}, image : SUBSET ImageNames]
    /\ preparation \in BuildPreparationValues
    /\ d_op = "none"
    /\ d_pc = "idle"
    /\ d_idx = 0
    /\ commands = <<>>
    /\ d_result = Running
    /\ previous = NoCall
    /\ HostOff

BuildNext ==
    \/ build_image_begin \/ build_image_inspect \/ build_image_pull \/ build_image_build

\* ---------------------------------------------------------- DockerCli::run

\* The ticks of the clock a call is followed for, and the calls of one run.
MaxTicks == 4
MaxRuns == 2

\* Command lines handed to DockerCli::run.
RunArgs ==
    {<<"pull", "example:image">>, <<"container", "start", "devcontainer-demo">>,
     <<"network", "inspect", "demo-network">>}

\* The outputs of an engine process that exits.
RunOutputs == {CommandOutput(0, <<>>), DaemonFailure}

\* DockerCli::run is called: Command::new(program).args(args).stdin(null),
\* then output() spawns the process; a spawn failure is the error returned,
\* otherwise the call awaits the process.
run_spawn ==
    /\ d_pc = "idle"
    /\ Len(commands) < MaxRuns
    /\ \E args \in RunArgs, spawns \in BOOLEAN :
          /\ d_args' = [op |-> "run", args |-> args]
          /\ IF spawns
             THEN /\ d_pc' = "waiting"
                  /\ d_result' = Running
                  /\ UNCHANGED commands
             ELSE /\ commands' = Append(commands, [argv |-> args, output |-> SpawnFailure])
                  /\ Fail(spawn_error(args))
    /\ d_op' = "run"
    /\ d_idx' = 0
    /\ UNCHANGED <<engine, preparation, containers, next_id>>
    /\ ContainerFrame

\* Time passes while output() is awaited: the await has no timeout and
\* nothing else runs beside it, so the call stays where it is.
run_tick ==
    /\ d_op = "run"
    /\ d_pc = "waiting"
    /\ d_idx < MaxTicks
    /\ d_idx' = d_idx + 1
    /\ UNCHANGED <<engine, preparation, containers, next_id, d_op, d_pc, d_args,
                   commands, d_result>>
    /\ ContainerFrame

\* The process exits: output() yields its status and captured streams, and
\* run returns them as a CommandOutput, whatever the status.
run_exit ==
    /\ d_op = "run"
    /\ d_pc = "waiting"
    /\ \E output \in RunOutputs :
          /\ commands' = Append(commands, [argv |-> d_args.args, output |-> output])
          /\ d_result' = Ok(output)
    /\ d_pc' = "idle"
    /\ UNCHANGED <<engine, preparation, containers, next_id, d_op, d_args, d_idx>>
    /\ ContainerFrame

\* No call of DockerCli::run is in flight.
RunInit ==
    /\ ExecOff
    /\ engine = [network |-> {}, volume |-> {}]
    /\ preparation = [container_name |-> "", workspace_mount_path |-> "",
                      networks |-> <<>>, volumes |-> <<>>]
    /\ d_op = "none"
    /\ d_pc = "idle"
    /\ d_idx = 0
    /\ commands = <<>>
    /\ d_result = Running
    /\ previous = NoCall
    /\ HostOff

RunNext == run_spawn \/ run_tick \/ run_exit

\* ------------------------------------------------------------------ resolve

\* A text is a list of tokens: the separator "/", a blank, the two
\* placeholders, and names. A path is the text PathBuf holds.
LocalWorkspaceFolder == "${localWorkspaceFolder}"
LocalWorkspaceFolderBasename == "${localWorkspaceFolderBasename}"

\* Path::is_absolute
is_absolute(path) == path # <<>> /\ path[1] = "/"

\* Path::join: an absolute path replaces the base, a relative one is pushed
\* after a separator.
join(base, path) ==
    IF is_absolute(path) THEN path
    ELSE IF base = <<>> \/ base[Len(base)] = "/" THEN base \o path
    ELSE base \o <<"/">> \o path

\* The path without its trailing separators.
RECURSIVE strip_separators(_)
strip_separators(path) ==
    IF path # <<>> /\ path[Len(path)] = "/"
    THEN strip_separators(SubSeq(path, 1, Len(path) - 1))
    ELSE path

\* Where the last component of a path without trailing separators starts.
last_start(path) ==
    IF \E i \in 1..Len(path) : path[i] = "/"
    THEN 1 + (CHOOSE i \in 1..Len(path) :
                  path[i] = "/" /\ \A j \in (i + 1)..Len(path) : path[j] # "/")
    ELSE 1

\* Path::file_name: the last component, none for the root, the empty path
\* and a path that ends in "..".
file_name(path) ==
    LET stripped == strip_separators(path)
        name == SubSeq(stripped, last_start(stripped), Len(stripped))
    IN  IF stripped = <<>> \/ name = <<"..">> THEN None ELSE Some(name)

\* Path::parent: the path without its last component; none for the root and
\* the empty path.
path_parent(path) ==
    LET stripped == strip_separators(path)
        before == SubSeq(stripped, 1, last_start(stripped) - 1)
    IN  IF stripped = <<>> THEN None
        ELSE IF before = <<>> THEN Some(<<>>)
        ELSE IF strip_separators(before) = <<>> THEN Some(<<"/">>)
        ELSE Some(strip_separators(before))

\* str::replace of one token by a text.
RECURSIVE replace(_, _, _)
replace(text, token, replacement) ==
    IF text = <<>> THEN <<>>
    ELSE (IF Head(text) = token THEN replacement ELSE <<Head(text)>>)
         \o replace(Tail(text), token, replacement)

\* fn resolve_local_workspace_placeholders
resolve_local_workspace_placeholders(input, workspace_root) ==
    LET named == IF contains(input, LocalWorkspaceFolderBasename)
                    /\ file_name(workspace_root).some
                 THEN replace(input, LocalWorkspaceFolderBasename,
                              file_name(workspace_root).value)
                 ELSE input
    IN  IF contains(named, LocalWorkspaceFolder)
        THEN replace(named, LocalWorkspaceFolder, workspace_root)
        ELSE named

\* enum ConfigSource
Workspace(path) == [kind |-> "Workspace", path |-> path]
ExplicitFile(path) == [kind |-> "ExplicitFile", path |-> path]

\* ConfigSource::resolve_path, files being the paths that exist.
resolve_path(source, files) ==
    IF source.kind = "Workspace"
    THEN LET candidate == join(join(source.path, <<".devcontainer">>),
                               <<"devcontainer.json">>)
             fallback == join(source.path, <<"devcontainer.json">>)
         IN  IF candidate \in files THEN Ok(candidate)
             ELSE IF fallback \in files THEN Ok(fallback)
             ELSE Err(ConfigurationError(<<"Failed to locate devcontainer.json under ">>
                                         \o source.path))
    ELSE IF source.path \in files THEN Ok(source.path)
    ELSE Err(ConfigurationError(<<"Configuration file ">> \o source.path
                                \o <<" does not exist">>))

\* A violation the schema validator reports.
ValidationError(kind, schema_path, message) ==
    [kind |-> kind, schema_path |-> schema_path, message |-> message]

\* messages.join("; ")
RECURSIVE join_messages(_)
join_messages(errors) ==
    IF errors = <<>> THEN <<>>
    ELSE IF Len(errors) = 1 THEN <<errors[1].message>>
    ELSE <<errors[1].message, "; ">> \o join_messages(Tail(errors))

\* fn validate_against_schema, collected being the violations the validator
\* found in the document (none: the document is valid).
only_root_one_of_conflict_any_one_of(collected) ==
    /\ collected # <<>>
    /\ \A i \in 1..Len(collected) : collected[i].kind = "OneOfMultipleValid"

only_root_one_of_conflict(collected) ==
    /\ collected # <<>>
    /\ \A i \in 1..Len(collected) :
          /\ collected[i].kind = "OneOfMultipleValid"
          /\ collected[i].schema_path = "/oneOf"

validate_against_schema(collected) ==
    IF collected = <<>> \/ only_root_one_of_conflict(collected) THEN Ok("()")
    ELSE Err(ConfigurationError(<<"Invalid devcontainer.json: ">>
                                \o join_messages(collected)))

\* The forward ports of a document, converted in order: the first error ends
\* the collection.
forward_ports_skipping_invalid(raw_forward_ports) ==
    Ok(SelectSeq([i \in 1..Len(raw_forward_ports) |-> try_from(raw_forward_ports[i])],
                 LAMBDA r : r.kind = "Ok"))

collect_forward_ports(raw_forward_ports) ==
    LET converted == [i \in 1..Len(raw_forward_ports) |-> try_from(raw_forward_ports[i])]
        failed == {i \in 1..Len(converted) : converted[i].kind = "Err"}
    IN  IF failed = {}
        THEN Ok([i \in 1..Len(converted) |-> converted[i].outcome])
        ELSE converted[CHOOSE i \in failed : \A j \in failed : i <= j]

\* config_path.parent() ... unwrap_or_else(|| PathBuf::from("."))
config_dir_of(config_path) ==
    IF path_parent(config_path).some THEN path_parent(config_path).value ELSE <<".">>

\* let workspace_root = match &self.source
workspace_root_of(source, config_dir) ==
    IF source.kind = "Workspace" THEN source.path ELSE config_dir

\* folder.trim_start().starts_with('/')
container_absolute(folder) == trim_start(folder) # <<>> /\ trim_start(folder)[1] = "/"

\* let workspace_folder_from_config
workspace_folder_from_config(config_workspace_folder, workspace_root) ==
    IF ~config_workspace_folder.some \/ container_absolute(config_workspace_folder.value)
    THEN None
    ELSE LET substituted == resolve_local_workspace_placeholders(
                                config_workspace_folder.value, workspace_root)
         IN  IF is_absolute(substituted) THEN Some(substituted)
             ELSE Some(join(workspace_root, substituted))

\* let workspace_folder = override.or(from config).unwrap_or(workspace root)
workspace_folder_ignoring_override(overrides, from_config, workspace_root) ==
    IF from_config.some THEN from_config.value
    ELSE IF overrides.workspace_folder.some THEN overrides.workspace_folder.value
    ELSE workspace_root

workspace_folder_of(overrides, from_config, workspace_root) ==
    IF overrides.workspace_folder.some THEN overrides.workspace_folder.value
    ELSE IF from_config.some THEN from_config.value
    ELSE workspace_root

\* let container_workspace_folder
container_workspace_folder_unsubstituted(config_workspace_folder, workspace_root) ==
    IF config_workspace_folder.some /\ container_absolute(config_workspace_folder.value)
    THEN Some(config_workspace_folder.value)
    ELSE None

container_workspace_folder_of(config_workspace_folder, workspace_root) ==
    IF config_workspace_folder.some /\ container_absolute(config_workspace_folder.value)
    THEN Some(resolve_local_workspace_placeholders(config_workspace_folder.value,
                                                   workspace_root))
    ELSE None

\* let project_name = override.or(name).or_else(file name).unwrap_or("devcontainer")
DefaultProjectName == <<"devcontainer">>

project_name_document_first(overrides, name, workspace_root) ==
    IF name.some THEN name.value
    ELSE IF overrides.project_name.some THEN overrides.project_name.value
    ELSE IF file_name(workspace_root).some THEN file_name(workspace_root).value
    ELSE DefaultProjectName

project_name_of(overrides, name, workspace_root) ==
    IF overrides.project_name.some THEN overrides.project_name.value
    ELSE IF name.some THEN name.value
    ELSE IF file_name(workspace_root).some THEN file_name(workspace_root).value
    ELSE DefaultProjectName

\* let dockerfile = docker_file.map(...)
dockerfile_of(docker_file, config_dir) ==
    IF ~docker_file.some THEN None
    ELSE IF is_absolute(docker_file.value) THEN docker_file
    ELSE Some(join(config_dir, docker_file.value))

\* The ResolvedConfig of a document that passed every check.
resolved(resolver, config_path, document, forward_ports) ==
    LET config_dir == config_dir_of(config_path)
        workspace_root == workspace_root_of(resolver.source, config_dir)
    IN  [project_name |-> project_name_of(resolver.overrides, document.name, workspace_root),
         workspace_folder |->
             workspace_folder_of(resolver.overrides,
                                 workspace_folder_from_config(document.workspace_folder,
                                                              workspace_root),
                                 workspace_root),
         container_workspace_folder |->
             container_workspace_folder_of(document.workspace_folder, workspace_root),
         config_path |-> config_path,
         image_reference |-> IF resolver.overrides.image_reference.some
                             THEN resolver.overrides.image_reference
                             ELSE document.image,
         dockerfile |-> dockerfile_of(document.docker_file, config_dir),
         features |-> document.features,
         forward_ports |-> forward_ports,
         post_create_command |-> document.post_create_command,
         post_attach_command |-> document.post_attach_command]

\* ConfigResolver::resolve. file is what the configuration file holds: whether
\* it can be read, parses, which violations the schema validator finds,
\* whether it deserializes, and the document.
resolve(resolver, files, file) ==
    LET located == resolve_path(resolver.source, files)
        validated == validate_against_schema(file.violations)
        ports == collect_forward_ports(file.document.forward_ports)
    IN  IF located.kind = "Err" THEN located
        ELSE IF ~file.readable
        THEN Err(ConfigurationError(<<"Failed to read ">> \o located.outcome))
        ELSE IF ~file.parses
        THEN Err(ConfigurationError(located.outcome \o <<" is not valid JSON: ">>))
        ELSE IF validated.kind = "Err" THEN validated
        ELSE IF ~file.deserializes
        THEN Err(ConfigurationError(located.outcome
                                    \o <<" does not match expected structure: ">>))
        ELSE IF ports.kind = "Err" THEN ports
        ELSE Ok(resolved(resolver, located.outcome, file.document, ports.outcome))

\* What resolve is called with. Workspace roots: a project directory and the
\* file system root; explicit files: an absolute and a bare file name.
ProjectRoot == <<"/", "work", "/", "demo">>
ConfigSourceValues ==
    {Workspace(ProjectRoot), Workspace(<<"/">>),
     ExplicitFile(ProjectRoot \o <<"/", "devcontainer.json">>),
     ExplicitFile(<<"devcontainer.json">>)}

\* The configuration files that may exist for a source.
ConfigFiles(source) ==
    IF source.kind = "Workspace"
    THEN {{join(join(source.path, <<".devcontainer">>), <<"devcontainer.json">>),
           join(source.path, <<"devcontainer.json">>)},
          {join(source.path, <<"devcontainer.json">>)},
          {}}
    ELSE {{source.path}, {}}

NoOverrides == [project_name |-> None, workspace_folder |-> None, image_reference |-> None]

\* struct DevcontainerConfig, and a document with the given fields changed.
PlainDocument ==
    [name |-> None, image |-> Some("example:image"), docker_file |-> None,
     workspace_folder |-> None, features |-> "{}", forward_ports |-> <<>>,
     post_create_command |-> None, post_attach_command |-> None]

\* A file that reads, parses, validates and deserializes, and the ways it
\* may fail to.
ConfigFile(readable, parses, violations, deserializes, document) ==
    [readable |-> readable, parses |-> parses, violations |-> violations,
     deserializes |-> deserializes, document |-> document]
ConfigFileStates ==
    {<<TRUE, TRUE, TRUE>>, <<FALSE, TRUE, TRUE>>, <<TRUE, FALSE, TRUE>>, <<TRUE, TRUE, FALSE>>}

\* The violations a validator reports: the root oneOf matched by several
\* alternatives or by none, a nested oneOf matched by several, a wrong type.
ViolationValues ==
    {ValidationError("OneOfMultipleValid", "/oneOf", "valid under more than one schema"),
     ValidationError("OneOfNotValid", "/oneOf", "not valid under any schema"),
     ValidationError("OneOfMultipleValid", "/oneOf/0/allOf/0/oneOf",
                     "valid under more than one nested schema"),
     ValidationError("Type", "/properties/name/type", "not of type string")}

\* The forward ports of the documents.
ForwardPortSamples ==
    {ForwardPortNumber(3000),
     ForwardPortString(<<"6", ":", "6", "0">>),
     ForwardPortString(<<>>),
     ForwardPortString(<<" ">>),
     ForwardPortString(<<"6", ":">>),
     ForwardPortString(<<"+", ":", "6">>),
     ForwardPortString(<<"6", "6", "6", "6", "6">>)}

\* The workspaceFolder values of the documents.
FolderTokens ==
    {"/", " ", "nested", "project", LocalWorkspaceFolder, LocalWorkspaceFolderBasename}

ResolveCase(source, files, overrides, file) ==
    [resolver |-> [source |-> source, overrides |-> overrides],
     files |-> files, file |-> file]

\* Documents that differ in their forward ports, in files that pass or fail
\* the earlier checks.
PortCases ==
    {ResolveCase(Workspace(ProjectRoot), {join(ProjectRoot, <<"devcontainer.json">>)},
                 NoOverrides,
                 ConfigFile(st[1], st[2], violations, st[3],
                            [PlainDocument EXCEPT !.forward_ports = ports])) :
        st \in ConfigFileStates,
        violations \in SeqUpTo({v \in ViolationValues : v.schema_path = "/oneOf"}, 1),
        ports \in SeqUpTo(ForwardPortSamples, MaxPorts)}

\* Documents of a source that differ in workspaceFolder, with and without
\* the override.
FolderCases(source) ==
    {ResolveCase(source, files,
                 [NoOverrides EXCEPT !.workspace_folder = override],
                 ConfigFile(TRUE, TRUE, <<>>, TRUE,
                            [PlainDocument EXCEPT !.workspace_folder = folder])) :
        files \in ConfigFiles(source) \ {{}},
        override \in {None, Some(<<"/", "src">>)},
        folder \in {None} \cup {Some(f) : f \in SeqUpTo(FolderTokens, MaxFolderLen)}}

\* Documents of a source that differ in name, image and dockerFile, with and
\* without the overrides; the file may be missing.
NameCases(source) ==
    {ResolveCase(source, files,
                 [NoOverrides EXCEPT !.project_name = project_name,
                                     !.image_reference = image_reference],
                 ConfigFile(TRUE, TRUE, <<>>, TRUE,
                            [PlainDocument EXCEPT !.name = name, !.image = image,
                                                  !.docker_file = docker_file])) :
        files \in ConfigFiles(source),
        project_name \in {None, Some(<<"override">>), Some(<<>>)},
        image_reference \in {None, Some("override:image")},
        name \in {None, Some(<<"original">>), Some(<<>>)},
        image \in {None, Some("example:image")},
        docker_file \in {None, Some(<<"Dockerfile">>), Some(<<"/", "Dockerfile">>)}}

\* Documents with every list of violations.
SchemaCases ==
    {ResolveCase(Workspace(ProjectRoot), {join(ProjectRoot, <<"devcontainer.json">>)},
                 NoOverrides,
                 ConfigFile(st[1], st[2], violations, st[3], PlainDocument)) :
        st \in ConfigFileStates,
        violations \in SeqUpTo(ViolationValues, MaxViolations)}

ResolveCases(sources) ==
    PortCases \cup SchemaCases
    \cup UNION {FolderCases(source) \cup NameCases(source) : source \in sources}

\* resolve has not been called yet: the resolver, the files that exist and
\* what the configuration file holds.
ResolveInit ==
    /\ ExecOff
    /\ EngineOff
    /\ ContainerOff
    /\ \E case \in ResolveCases(ConfigSourceValues) :
          /\ fn_input = [some |-> TRUE, fn |-> "resolve", arg |-> case]
          /\ filesystem = case.files
    /\ fn_output = None

\* ConfigResolver::resolve
Resolve ==
    /\ fn_input.some
    /\ fn_input.fn = "resolve"
    /\ fn_output = None
    /\ fn_output' = Some(resolve(fn_input.arg.resolver, filesystem, fn_input.arg.file))
    /\ UNCHANGED <<execVars, engine, preparation, d_op, d_pc, d_idx, commands, d_result,
                   previous, containers, next_id, d_args, filesystem, fn_input>>

\* ---------------------------------------------------------- specifications

Init == ExecInit /\ DockerOff

Next == ExecNext

Spec == Init /\ [][Next]_vars

\* execute(config, plan) is called with a plan of the caller's.
ExecuteInit ==
    /\ config \in {c \in ResolvedConfigValues :
                      /\ c.image_reference.some
                      /\ c.post_create_command \in PlanCommandValues
                      /\ c.post_attach_command \in PlanCommandValues}
    /\ options \in LifecyclePlanOptionsValues
    /\ plan \in LifecyclePlanValues(config, options)
    /\ pc = "prepare"
    /\ inFlight = {}
    /\ calls = <<>>
    /\ returns = <<>>
    /\ executed_phases = <<>>
    /\ container = None
    /\ pending = <<>>
    /\ exec_result = None
    /\ result = Running
    /\ DockerOff

\* LifecycleExecutor::execute handed a plan of any steps.
ExecuteSpec == ExecuteInit /\ [][ExecuteNext]_vars

\* The planner alone: for_up applied to every config and every options.
PlanSpec == Init /\ [][ForUp]_vars

DockerSpecInit == ExecOff /\ DockerInit

DockerSpec == DockerSpecInit /\ [][DockerNext]_vars

\* The container operations of the docker provider, called in any order.
ContainerSpec == ContainerInit /\ [][ContainerNext]_vars

\* Calls of DockerCli::run, one after the other, while the clock ticks.
RunSpec == RunInit /\ [][RunNext]_vars

\* build_image, called again and again against one engine.
BuildSpec == BuildInit /\ [][BuildNext]_vars

\* ConfigResolver::resolve applied to a source, overrides and a document.
ResolveSpec == ResolveInit /\ [][Resolve]_vars

\* One run of the CLI's up or exec command over a provider whose operations
\* may each succeed or fail.
CliSpec == CliInit /\ [][CliNext]_vars

\* Two runs of the lifecycle's container operations against one docker
\* engine, interleaved command by command.
RaceSpec == RaceInit /\ [][RaceNext]_vars

\* One run of the CLI's down command against the docker engine.
DownSpec == DownInit /\ [][DownNext]_vars

\* The create command of a run, for every config.
CreateCommandSpec == CreateCommandInit /\ [][CreateCommand]_vars

\* prepare, called again and again with one config on a host that changes.
PrepareSpec == PrepareInit /\ [][PrepareNext]_vars

\* ForwardPort::try_from alone, applied to every forward-port definition.
PortSpec == PortInit /\ [][TryFromForwardPort]_vars

\* sanitize_name alone, applied to every project name.
SanitizeSpec == SanitizeInit /\ [][SanitizeName]_vars

\* ---------------------------------------------------- executor properties

\* The provisioning operations in the order the contract gives them.
ProvisioningOrder ==
    <<"prepare", "ensure_networks", "ensure_volumes", "build_image", "create_container",
      "start_container">>

\* Indices of the exec calls made for a hook.
ExecIndices(hook) == {i \in 1..Len(calls) : calls[i].op = "exec" /\ calls[i].hook = hook}

\* A call that has returned success: Ok and, for exec, exit code 0.
Succeeded(i) == i <= Len(returns) /\ returns[i].ok /\ returns[i].exit_code = 0

\* The last call has returned an ExecResult with a non-zero exit code.
LastExecExitedNonZero ==
    /\ calls # <<>>
    /\ Len(returns) = Len(calls)
    /\ calls[Len(calls)].op = "exec"
    /\ returns[Len(returns)].ok
    /\ returns[Len(returns)].exit_code # 0

\* A list of tokens occurs in a message.
Contains(message, tokens) ==
    \E i \in 1..(Len(message) + 1) :
        /\ i + Len(tokens) - 1 <= Len(message)
        /\ SubSeq(message, i, i + Len(tokens) - 1) = tokens

\* The k-th smallest of a set of command names.
KthName(K, k) == CHOOSE n \in K : Cardinality({m \in K : NameRank(m) < NameRank(n)}) = k - 1

\* What the contract says a command is sent as.
SentAs(cmd) == IF cmd.kind = "String" THEN <<"/bin/sh", "-c", cmd.command>> ELSE cmd.args

\* The argv of every command of a hook's definition, a map's in key order.
ExpectedArgv(command) ==
    IF ~command.some THEN <<>>
    ELSE IF command.value.kind = "Single" THEN <<SentAs(command.value.cmd)>>
    ELSE [k \in 1..Cardinality(DOMAIN command.value.commands) |->
            SentAs(command.value.commands[KthName(DOMAIN command.value.commands, k)])]

Planned == pc # "plan"

\* C1: the provider operations are invoked in the order prepare,
\* ensure_networks, ensure_volumes, build_image, create_container,
\* start_container, post-create execs, post-attach execs; each only after every
\* earlier one returned success; never two in flight at once.
C1_SequentialOrder ==
    /\ \A i \in 1..Len(calls) :
         IF i <= Len(ProvisioningOrder)
         THEN calls[i].op = ProvisioningOrder[i]
         ELSE calls[i].op = "exec" /\ calls[i].hook \in Hooks
    /\ \A i \in ExecIndices("PostAttach") : \A j \in ExecIndices("PostCreate") : j < i
    /\ \A i \in 1..(Len(calls) - 1) : Succeeded(i)
    /\ Cardinality(inFlight) <= 1
    /\ Len(calls) - Len(returns) = Cardinality(inFlight)

C1_Witness ==
    /\ result.kind = "Ok"
    /\ Cardinality(ExecIndices("PostCreate")) = 2
    /\ Cardinality(ExecIndices("PostAttach")) = 2

\* C2: a non-zero exit code of a post-create exec fails execute with a
\* Provider error whose message holds the hook name, the exit code and the
\* trimmed stderr when that is not empty; no outcome, no post-attach exec.
C2_PostCreateFailure ==
    (LastExecExitedNonZero /\ calls[Len(calls)].hook = "PostCreate") =>
        /\ pc = "failed"
        /\ result.kind = "Err"
        /\ result.error.kind = "Provider"
        /\ Contains(result.error.message, <<"postCreate">>)
        /\ Contains(result.error.message, <<ToString(returns[Len(returns)].exit_code)>>)
        /\ exec_result.some
        /\ trim(exec_result.value.stderr) # <<>> =>
              Contains(result.error.message, trim(exec_result.value.stderr))
        /\ ExecIndices("PostAttach") = {}

C2_Witness ==
    /\ LastExecExitedNonZero
    /\ calls[Len(calls)].hook = "PostCreate"
    /\ exec_result.some
    /\ exec_result.value.stderr = <<" ", "boom">>
    /\ config.post_attach_command.some
    /\ ~options.skip_post_attach.some

\* C3: with no skip reasons and every operation succeeding with exit code 0,
\* the outcome lists all six phases in order and the exec argv sequence is the
\* post-create commands then the post-attach commands, a shell string s sent
\* as /bin/sh -c s and an argument array sent unchanged.
C3_SuccessfulRun ==
    (/\ result.kind = "Ok"
     /\ ~options.skip_post_create.some
     /\ ~options.skip_post_attach.some) =>
        /\ result.outcome.executed_phases = LifecyclePhases
        /\ LET execs == SelectSeq(calls, LAMBDA c : c.op = "exec")
           IN  [i \in 1..Len(execs) |-> execs[i].argv]
                 = ExpectedArgv(config.post_create_command)
                   \o ExpectedArgv(config.post_attach_command)

C3_Witness ==
    /\ result.kind = "Ok"
    /\ ~options.skip_post_create.some
    /\ ~options.skip_post_attach.some
    /\ config.post_create_command = Some(Single(CommandArgsString("echo post create")))
    /\ config.post_attach_command = Some(Single(CommandArgsArray(<<"echo", "post-attach">>)))
    /\ Len(calls) = 8

\* The action the plan holds for a hook.
PlannedAction(hook) == step_for_phase(plan, hook).value.event.detail.action

\* C4: for_up chooses each hook's action by the precedence explicit skip (with
\* the caller's reason), then no-command skip (with the fixed reason), then
\* Execute.
C4_HookPrecedence ==
    Planned =>
        /\ step_for_phase(plan, "PostCreate").some
        /\ step_for_phase(plan, "PostAttach").some
        /\ PlannedAction("PostCreate") =
             (IF options.skip_post_create.some
              THEN [kind |-> "Skip", reason |-> options.skip_post_create.value]
              ELSE IF ~config.post_create_command.some
              THEN [kind |-> "Skip",
                    reason |-> "No postCreate command defined in configuration"]
              ELSE [kind |-> "Execute"])
        /\ PlannedAction("PostAttach") =
             (IF options.skip_post_attach.some
              THEN [kind |-> "Skip", reason |-> options.skip_post_attach.value]
              ELSE IF ~config.post_attach_command.some
              THEN [kind |-> "Skip",
                    reason |-> "No postAttach command defined in configuration"]
              ELSE [kind |-> "Execute"])

C4_Witness ==
    /\ Planned
    /\ options.skip_post_create.some
    /\ ~config.post_create_command.some
    /\ ~options.skip_post_attach.some
    /\ config.post_attach_command.some

\* C5: the plan for_up returns has exactly six steps, of the phases Resolve,
\* Build, Create, Start, PostCreate, PostAttach in that order.
C5_SixPhases ==
    Planned =>
        /\ Len(plan) = 6
        /\ [i \in 1..Len(plan) |-> plan[i].phase] =
              <<"Resolve", "Build", "Create", "Start", "PostCreate", "PostAttach">>

C5_Witness ==
    /\ Planned
    /\ options.skip_post_create.some
    /\ ~config.post_attach_command.some
    /\ ~config.image_reference.some

\* The plan's action for the hook is Skip.
Skipped(hook) ==
    /\ Planned
    /\ LET step == step_for_phase(plan, hook)
       IN  /\ step.some
           /\ step.value.event.detail.kind = "Hook"
           /\ step.value.event.detail.action.kind = "Skip"

\* C6: a hook whose action is Skip gets no exec, and its phase is still
\* recorded once execute has passed it; with both hooks skipped a successful
\* run records all six phases and makes no exec call.
C6_SkippedHook ==
    LET skip_post_create == Skipped("PostCreate")
        skip_post_attach == Skipped("PostAttach")
    IN  /\ skip_post_create => ExecIndices("PostCreate") = {}
        /\ skip_post_attach => ExecIndices("PostAttach") = {}
        /\ (skip_post_create
             /\ pc \in {"post_attach", "run_post_attach", "finish", "done"})
              => "PostCreate" \in Range(executed_phases)
        /\ (skip_post_attach /\ pc \in {"finish", "done"})
              => "PostAttach" \in Range(executed_phases)
        /\ (skip_post_create /\ skip_post_attach /\ result.kind = "Ok") =>
              /\ result.outcome.executed_phases = LifecyclePhases
              /\ \A i \in 1..Len(calls) : calls[i].op # "exec"

C6_Witness ==
    /\ result.kind = "Ok"
    /\ Skipped("PostCreate")
    /\ Skipped("PostAttach")
    /\ config.post_create_command.some
    /\ ~config.post_attach_command.some

\* C7: for a hook defined by a named map, one exec per entry is issued in
\* ascending key order, each only after every earlier entry exited with 0;
\* the first entry that exits non-zero ends the run, is the one the error
\* names, and no later entry is exec'd.
C7_ParallelMapInKeyOrder ==
    \A hook \in Hooks :
        LET command == hook_command(config, hook)
        IN  (command.some /\ command.value.kind = "Parallel") =>
              LET entries == command.value.commands
                  keys == DOMAIN entries
                  idx == ExecIndices(hook)
                  first == CHOOSE i \in idx : \A j \in idx : i <= j
              IN  /\ Cardinality(idx) <= Cardinality(keys)
                  /\ \A i \in idx :
                       /\ calls[i].name = Some(KthName(keys, i - first + 1))
                       /\ calls[i].argv = SentAs(entries[calls[i].name.value])
                       /\ \A j \in idx : j < i => Succeeded(j)
                  /\ hook \in Range(executed_phases) /\ PlannedAction(hook).kind = "Execute"
                       => Cardinality(idx) = Cardinality(keys)
                  /\ (LastExecExitedNonZero /\ calls[Len(calls)].hook = hook) =>
                       /\ pc = "failed"
                       /\ result.kind = "Err"
                       /\ result.error.kind = "Provider"
                       /\ Contains(result.error.message,
                                   <<" command '", calls[Len(calls)].name.value,
                                     "' failed with exit code ">>)

C7_Witness ==
    /\ LastExecExitedNonZero
    /\ calls[Len(calls)].hook = "PostCreate"
    /\ calls[Len(calls)].name = Some("a")
    /\ config.post_create_command.some
    /\ config.post_create_command.value.kind = "Parallel"
    /\ DOMAIN config.post_create_command.value.commands = {"a", "b"}

\* C8: execute never calls stop_container or cleanup, whether it succeeds or
\* fails; after a failed hook the last provisioning call is the start_container
\* that returned success, followed only by execs.
C8_NoRollback ==
    /\ \A i \in 1..Len(calls) : calls[i].op \notin {"stop_container", "cleanup"}
    /\ (pc = "failed" /\ calls[Len(calls)].op = "exec") =>
          \E i \in 1..Len(calls) :
              /\ calls[i].op = "start_container"
              /\ returns[i].ok
              /\ \A j \in (i + 1)..Len(calls) : calls[j].op = "exec"

C8_Witness ==
    /\ pc = "failed"
    /\ calls[Len(calls)].op = "exec"
    /\ calls[Len(calls)].hook = "PostAttach"

\* The phase a provider operation belongs to.
PhaseOf(call) ==
    CASE call.op = "prepare" -> "Resolve"
      [] call.op \in {"ensure_networks", "ensure_volumes", "build_image"} -> "Build"
      [] call.op = "create_container" -> "Create"
      [] call.op = "start_container" -> "Start"
      [] call.op = "exec" -> call.hook

PhaseIndex(phase) ==
    CASE phase = "Resolve" -> 1
      [] phase = "Build" -> 2
      [] phase = "Create" -> 3
      [] phase = "Start" -> 4
      [] phase = "PostCreate" -> 5
      [] phase = "PostAttach" -> 6

\* C9: executed_phases is always a prefix of the planned phases; a phase is
\* recorded only after its provider work returned success; no phase at or
\* after the failing one is recorded.
C9_ExecutedPrefix ==
    Planned =>
        /\ IsPrefix(executed_phases, [i \in 1..Len(plan) |-> plan[i].phase])
        /\ \A i \in 1..Len(calls) :
             PhaseIndex(PhaseOf(calls[i])) <= Len(executed_phases) => Succeeded(i)
        /\ \A k \in 1..Len(executed_phases) :
             executed_phases[k] \notin Hooks =>
                 \E i \in 1..Len(calls) : PhaseOf(calls[i]) = executed_phases[k]
        /\ result.kind = "Err" =>
             Len(executed_phases) < PhaseIndex(PhaseOf(calls[Len(calls)]))

C9_Witness ==
    /\ result.kind = "Err"
    /\ calls[Len(calls)].op = "create_container"
    /\ executed_phases = <<"Resolve", "Build">>

\* ------------------------------------------------------ provider properties

\* The entry of the log is an inspect that reported the resource absent.
ReportedAbsent(entry, kind) ==
    /\ entry.argv[2] = "inspect"
    /\ entry.output.spawned
    /\ entry.output.code # 0
    /\ contains(entry.output.stderr, AbsencePattern(kind))

\* The kind of resource the operation called last works on.
KindOf(op) == IF op = "ensure_networks" THEN "network" ELSE "volume"

\* C10: ensure_networks and ensure_volumes inspect each named resource, create
\* it exactly when the inspect reported it absent, and return a provider error
\* on any other inspect failure; after a successful call every named resource
\* exists, and an immediately repeated call creates nothing.
C10_IdempotentEnsure ==
    d_op # "none" =>
        LET kind == KindOf(d_op)
            names == resource_names(preparation, kind)
            n == Len(commands)
        IN  /\ \A i \in 1..n :
                 /\ commands[i].argv[1] = kind
                 /\ commands[i].argv[2] \in {"inspect", "create"}
                 \* a create follows an inspect of the same resource that
                 \* reported it absent, and nothing else
                 /\ IsCreate(commands[i]) =>
                      /\ i > 1
                      /\ ReportedAbsent(commands[i - 1], kind)
                      /\ commands[i - 1].argv[3] = commands[i].argv[3]
                 \* an inspect that reported absence is answered by the create
                 /\ ReportedAbsent(commands[i], kind) =>
                      IF i < n
                      THEN IsCreate(commands[i + 1])
                      ELSE d_pc = "create"
                 \* any other failure of an inspect is a provider error
                 /\ (/\ commands[i].argv[2] = "inspect"
                     /\ ~success(commands[i].output)
                     /\ ~ReportedAbsent(commands[i], kind)) =>
                      /\ i = n
                      /\ d_pc = "idle"
                      /\ d_result.kind = "Err"
                      /\ d_result.error.kind = "Provider"
            \* after a successful call every named resource exists
            /\ (d_pc = "idle" /\ d_result.kind = "Ok") =>
                 /\ \A i \in 1..Len(names) : names[i] \in engine[kind]
                 /\ \A i \in 1..Len(names) :
                      \E j \in 1..n : commands[j].argv = <<kind, "inspect", names[i]>>
            \* a call that repeats a successful one creates nothing
            /\ (previous.op = d_op /\ previous.ok) =>
                 \A i \in 1..n : ~IsCreate(commands[i])

C10_Witness ==
    /\ d_op = "ensure_volumes"
    /\ d_pc = "idle"
    /\ d_result.kind = "Ok"
    /\ previous = [op |-> "ensure_volumes", ok |-> TRUE, created |-> TRUE]
    /\ Len(commands) = 2

\* ------------------------------------------------------ prepare properties

\* prepare got past its first checks: `docker version` succeeded and the
\* workspace folder exists.
PreconditionsMet ==
    /\ commands # <<>>
    /\ success(commands[1].output)
    /\ d_args.config.workspace_folder \in filesystem

\* Exactly one image source is resolvable: an image reference and no
\* dockerfile, or no image reference and a dockerfile that exists.
ExactlyOneSource ==
    LET cfg == d_args.config
    IN  \/ cfg.image_reference.some /\ ~cfg.dockerfile.some
        \/ /\ ~cfg.image_reference.some
           /\ cfg.dockerfile.some
           /\ cfg.dockerfile.value \in filesystem

C17_AsClaimed ==
    (PreconditionsMet /\ ~ExactlyOneSource) =>
        /\ d_result.kind = "Err"
        /\ d_result.error.kind = "Configuration"

\* C17 as stated: prepare fails with a configuration error unless exactly one
\* of image reference and dockerfile is resolvable, also when both are given.
C17_Original == [][Prepare => C17_AsClaimed']_vars

C17_AsAmended ==
    LET cfg == d_args.config
    IN  PreconditionsMet =>
          /\ d_result.kind = "Err" <=>
                /\ ~cfg.image_reference.some
                /\ ~(cfg.dockerfile.some /\ cfg.dockerfile.value \in filesystem)
          /\ d_result.kind = "Err" => d_result.error.kind = "Configuration"
          /\ cfg.image_reference.some =>
                d_result.outcome.image =
                    [kind |-> "Reference", reference |-> cfg.image_reference.value]

\* C17: with the engine reachable and the workspace folder present, prepare
\* fails, with a configuration error, exactly when there is no image reference
\* and the dockerfile is missing from the config or from the disk; with an
\* image reference, alone or next to a dockerfile, it succeeds and takes the
\* image reference.
C17_ImageSourceRequired == [][Prepare => C17_AsAmended']_vars

C17_Witness ==
    /\ d_op = "prepare"
    /\ PreconditionsMet
    /\ d_args.config.image_reference.some
    /\ d_args.config.dockerfile.some
    /\ d_args.config.dockerfile.value \notin filesystem
    /\ d_result.kind = "Ok"

\* C18: every successful prepare returns the container name, slug, network
\* names, volume specs, workspace mount path and image source that follow from
\* the sanitized project name and the image / dockerfile fields, so two calls
\* with one config return the same.
C18_PrepareDeterministic ==
    (d_op = "prepare" /\ d_result.kind = "Ok") =>
        LET cfg == d_args.config
            slug == sanitize_name(cfg.project_name)
            prep == d_result.outcome
        IN  /\ prep.project_slug = slug
            /\ prep.container_name = <<"devcontainer-">> \o slug
            /\ prep.networks = << <<"devcontainer-">> \o slug \o <<"-network">> >>
            /\ Len(prep.volumes) = 1
            /\ prep.volumes[1].name = <<"devcontainer-">> \o slug \o <<"-data">>
            /\ prep.workspace_mount_path = <<"/workspaces/">> \o slug
            /\ IF cfg.image_reference.some
               THEN prep.image.kind = "Reference"
                    /\ prep.image.reference = cfg.image_reference.value
               ELSE prep.image.kind = "Build"
                    /\ prep.image.dockerfile = cfg.dockerfile.value
                    /\ prep.image.tag = <<"devcontainer-">> \o slug \o <<":latest">>
            /\ (previous.op = "prepare" /\ previous.ok) =>
                  previous.returned.outcome = prep

C18_Witness ==
    /\ d_op = "prepare"
    /\ d_result.kind = "Ok"
    /\ previous.op = "prepare"
    /\ previous.ok
    /\ d_args.config.project_name = <<"A", "b", " ", "7">>
    /\ ~d_args.config.image_reference.some
    /\ d_result.outcome.container_name = <<"devcontainer-", "a", "b", "-", "7">>

\* ----------------------------------------------------- conversion properties

\* C19: for every project name the slug is not empty, holds only lower case
\* ASCII letters, digits, '-', '_' and '.', neither starts nor ends with '-',
\* and is the fixed fallback when nothing of the name is left.
C19_SlugShape ==
    (fn_input.some /\ fn_input.fn = "sanitize_name" /\ fn_output.some) =>
        LET slug == fn_output.value
            name == fn_input.arg
        IN  /\ slug # <<>>
            /\ \A i \in 1..Len(slug) :
                 slug[i] \in AsciiLowercase \cup AsciiDigits \cup {"-", "_", "."}
            /\ slug[1] # "-"
            /\ slug[Len(slug)] # "-"
            /\ (\A i \in 1..Len(name) :
                   name[i] \notin {"A", "b", "7", "_", "."})
                 => slug = <<"d", "e", "v", "c", "o", "n", "t", "a", "i", "n", "e", "r">>

C19_Witness ==
    /\ fn_input.some
    /\ fn_input.fn = "sanitize_name"
    /\ fn_input.arg = <<"U+00E9", "A", " ">>
    /\ fn_output = Some(<<"a">>)

\* A text that is a decimal port number: digits only, at least one, of a
\* value that a port can take.
RECURSIVE DecimalValue(_)
DecimalValue(text) ==
    IF text = <<>> THEN 0
    ELSE 10 * DecimalValue(SubSeq(text, 1, Len(text) - 1))
         + (CASE text[Len(text)] = "0" -> 0 [] text[Len(text)] = "6" -> 6)

IsDecimalPort(text) ==
    /\ text # <<>>
    /\ \A i \in 1..Len(text) : text[i] \in {"0", "6"}
    /\ DecimalValue(text) <= 65535

\* C20: a string "L:C" of two decimal port numbers resolves to local L,
\* container C, tcp; a string that is one decimal port number resolves to
\* local = container = that number; a bare integer P to local = container = P,
\* tcp.
C20_ForwardPortNormalization ==
    (fn_input.some /\ fn_input.fn = "try_from" /\ fn_output.some) =>
        LET def == fn_input.arg
            port == fn_output.value
        IN  /\ def.kind = "Number" =>
                 /\ port.kind = "Ok"
                 /\ port.outcome = [local_port |-> def.port, container_port |-> def.port,
                                     protocol |-> "tcp"]
            /\ (def.kind = "String" /\ IsDecimalPort(def.value)) =>
                 /\ port.kind = "Ok"
                 /\ port.outcome = [local_port |-> DecimalValue(def.value),
                                     container_port |-> DecimalValue(def.value),
                                     protocol |-> "tcp"]
            /\ def.kind = "String" =>
                 \A k \in 1..Len(def.value) :
                     LET L == SubSeq(def.value, 1, k - 1)
                         C == SubSeq(def.value, k + 1, Len(def.value))
                     IN  (def.value[k] = ":" /\ IsDecimalPort(L) /\ IsDecimalPort(C)) =>
                             /\ port.kind = "Ok"
                             /\ port.outcome = [local_port |-> DecimalValue(L),
                                                 container_port |-> DecimalValue(C),
                                                 protocol |-> "tcp"]

C20_Witness ==
    /\ fn_input.some
    /\ fn_input.fn = "try_from"
    /\ fn_input.arg = [kind |-> "String", value |-> <<"6", "0", "0", ":", "0", "6">>]
    /\ fn_output.some
    /\ fn_output.value.kind = "Ok"
    /\ fn_output.value.outcome.local_port = 600
    /\ fn_output.value.outcome.container_port = 6

\* ----------------------------------------- container operation properties

\* C15: exec called with an empty argv has returned, whatever the container
\* handle, a success result with exit code 0 and empty stdout and stderr,
\* and has issued no engine command.
C15_ExecEmptyArgv ==
    (d_op = "exec" /\ d_args.command = <<>>) =>
        /\ d_pc = "idle"
        /\ d_result.kind = "Ok"
        /\ d_result.outcome = [exit_code |-> 0, stdout |-> <<>>, stderr |-> <<>>]
        /\ commands = <<>>

C15_Witness ==
    /\ d_op = "exec"
    /\ d_args.command = <<>>
    /\ d_args.container = [id |-> None, name |-> None]
    /\ d_result.kind = "Ok"
    /\ containers # {}

\* The operation in hand was called with a RunningContainer that has neither
\* an id nor a name (exec: and with a non-empty argv).
NoIdentifierCall ==
    /\ d_op \in {"start_container", "exec", "stop_container"}
    /\ ~d_args.container.id.some
    /\ ~d_args.container.name.some
    /\ d_op = "exec" => d_args.command # <<>>

\* C16: start_container, exec with a non-empty argv and stop_container,
\* called with a RunningContainer that has neither id nor name, issue no
\* engine command and return a provider error.
C16_NoIdentifierNoTarget ==
    NoIdentifierCall =>
        /\ commands = <<>>
        /\ d_pc = "idle"
        /\ d_result.kind = "Err"
        /\ d_result.error.kind = "Provider"

\* The containers of the engine that carry the prepared name.
Named == {c \in containers : c.name = preparation.container_name}

\* C12: create_container first issues container rm --force <container name>
\* and only then create --name <container name>; a removal that reported "No
\* such container" does not fail the operation, the create follows it; and
\* when create_container has returned Ok, exactly one container of the
\* prepared name exists, the one just created, which the handle names.
C12_RemoveThenCreate ==
    d_op = "create_container" =>
        /\ Len(commands) <= 2
        /\ commands # <<>> =>
              commands[1].argv = <<"container", "rm", "--force", preparation.container_name>>
        /\ Len(commands) = 2 =>
              /\ commands[2].argv[1] = "create"
              /\ commands[2].argv[2] = "--name"
              /\ commands[2].argv[3] = preparation.container_name
        /\ (/\ Len(commands) = 1
            /\ commands[1].output.spawned
            /\ contains(commands[1].output.stderr, "No such container")) =>
              \/ d_pc = "create"
              \/ d_result.kind = "Err"
                 /\ d_result.error.message[1] = "Unable to represent path "
        /\ (d_pc = "idle" /\ d_result.kind = "Ok") =>
              /\ Len(commands) = 2
              /\ Named = {Container(preparation.container_name, ToString(next_id - 1), FALSE)}
              /\ d_result.outcome.name = Some(preparation.container_name)
              /\ d_result.outcome.id.some =>
                    d_result.outcome.id.value = ToString(next_id - 1)

C12_Witness ==
    /\ d_op = "create_container"
    /\ d_pc = "idle"
    /\ d_result.kind = "Ok"
    /\ next_id = 2
    /\ contains(commands[1].output.stderr, "No such container")
    /\ Named = {Container(preparation.container_name, "1", FALSE)}

\* The engine answered a removal with a non-zero exit and the absence
\* message of the kind of resource: "No such container / network / volume".
ReportsAbsent(entry) ==
    /\ entry.output.spawned
    /\ ~success(entry.output)
    /\ contains(entry.output.stderr,
                IF entry.argv[1] = "container" THEN "No such container"
                ELSE AbsencePattern(entry.argv[1]))

\* The removals cleanup issues when none of them fails.
RemovalCount ==
    1 + Len(preparation.networks)
      + (IF d_args.options.remove_volumes THEN Len(preparation.volumes) ELSE 0)

\* C13: a cleanup whose removals all reported "not found" never fails and
\* returns Ok once the container, every network and, when asked for, every
\* volume has been tried; a stop_container whose container stop reported "No
\* such container" or "is not running" returns Ok.
C13_AbsenceIsSuccess ==
    /\ (/\ d_op = "cleanup"
        /\ commands # <<>>
        /\ \A i \in 1..Len(commands) : ReportsAbsent(commands[i])) =>
          /\ d_result.kind # "Err"
          /\ d_pc = "idle" => (d_result.kind = "Ok" /\ Len(commands) = RemovalCount)
    /\ (/\ d_op = "stop_container"
        /\ commands # <<>>
        /\ commands[1].output.spawned
        /\ ~success(commands[1].output)
        /\ \/ contains(commands[1].output.stderr, "No such container")
           \/ contains(commands[1].output.stderr, "is not running")) =>
          (d_pc = "idle" /\ d_result.kind = "Ok")

C13_Witness ==
    /\ d_op = "cleanup"
    /\ d_pc = "idle"
    /\ d_result.kind = "Ok"
    /\ d_args.options.remove_volumes
    /\ Len(preparation.networks) = 2
    /\ Len(preparation.volumes) = 2
    /\ Len(commands) = 5
    /\ \A i \in 1..Len(commands) : ReportsAbsent(commands[i])

\* The removals of a cleanup in the order the claim gives them: the
\* container, each declared network, then each declared volume, the volumes
\* and the --volumes flag only with remove_volumes.
ExpectedRemovals ==
    << <<"container", "rm", "--force">>
       \o (IF d_args.options.remove_volumes THEN <<"--volumes">> ELSE <<>>)
       \o <<preparation.container_name>> >>
    \o [i \in 1..Len(preparation.networks) |-> <<"network", "rm", preparation.networks[i]>>]
    \o (IF d_args.options.remove_volumes
        THEN [i \in 1..Len(preparation.volumes) |->
                 <<"volume", "rm", preparation.volumes[i].name>>]
        ELSE <<>>)

\* The removal went well or found nothing to remove.
Benign(entry) ==
    entry.output.spawned /\ (success(entry.output) \/ ReportsAbsent(entry))

\* C14: the commands of a cleanup are a prefix of: container removal, network
\* removals in declared order, volume removals in declared order; without
\* remove_volumes there is no --volumes flag and no volume removal; every
\* removal but the last issued went well or found nothing, and after a
\* removal that failed otherwise cleanup has returned an error.
C14_CleanupOrder ==
    d_op = "cleanup" =>
        /\ Len(commands) <= Len(ExpectedRemovals)
        /\ \A i \in 1..Len(commands) : commands[i].argv = ExpectedRemovals[i]
        /\ ~d_args.options.remove_volumes =>
              \A i \in 1..Len(commands) :
                  /\ commands[i].argv[1] # "volume"
                  /\ \A k \in 1..Len(commands[i].argv) : commands[i].argv[k] # "--volumes"
        /\ \A i \in 1..Len(commands) :
              ~Benign(commands[i]) =>
                  /\ i = Len(commands)
                  /\ d_pc = "idle"
                  /\ d_result.kind = "Err"

C14_Witness ==
    /\ d_op = "cleanup"
    /\ d_pc = "idle"
    /\ ~d_args.options.remove_volumes
    /\ Len(preparation.networks) = 2
    /\ Len(preparation.volumes) = 2
    /\ engine.volume = VolumeNames
    /\ Len(commands) = 2
    /\ ~Benign(commands[2])
    /\ d_result.kind = "Err"

\* stderr carries one of the absence messages.
AbsenceMessage(output) ==
    \/ contains(output.stderr, "No such container")
    \/ contains(output.stderr, "No such network")
    \/ contains(output.stderr, "No such volume")

\* The message holds the tokens of part, in a row.
Carries(message, part) ==
    \E k \in 1..(Len(message) - Len(part) + 1) :
        SubSeq(message, k, k + Len(part) - 1) = part

\* C11: every engine command of a container operation that exited non-zero
\* without an absence message in stderr has ended the operation with a
\* provider error that carries the command line, the exit code and the
\* captured stderr. (Stated for the operations other than exec, whose result
\* is the exit status of the command it runs.)
C11_ExitCodeContract ==
    d_op # "exec" =>
        \A i \in 1..Len(commands) :
            LET output == commands[i].output
            IN  (output.spawned /\ ~success(output) /\ ~AbsenceMessage(output)) =>
                    /\ d_pc = "idle"
                    /\ d_result.kind = "Err"
                    /\ d_result.error.kind = "Provider"
                    /\ Carries(d_result.error.message, format_command(commands[i].argv))
                    /\ Carries(d_result.error.message, <<ToString(output.code)>>)
                    /\ Carries(d_result.error.message, trim(output.stderr))

\* The container the command of start_container, exec or stop_container
\* addresses: docker start <c>, docker exec <c> ..., docker container stop <c>.
Target == commands[1].argv[IF d_op = "stop_container" THEN 3 ELSE 2]

\* C30: the command of start_container, exec and stop_container addresses
\* the container by the handle's name when the handle has a name, and by its
\* id when it has an id and no name.
C30_NamePreferred ==
    (d_op \in {"start_container", "exec", "stop_container"} /\ commands # <<>>) =>
        /\ d_args.container.name.some => Target = d_args.container.name.value
        /\ (~d_args.container.name.some /\ d_args.container.id.some) =>
              Target = d_args.container.id.value

C30_Witness ==
    /\ d_op = "exec"
    /\ commands # <<>>
    /\ d_args.container = [id |-> Some("1"), name |-> Some("devcontainer-demo")]
    /\ commands[1].argv = <<"exec", "devcontainer-demo", "true">>
    /\ d_result.kind = "Ok"

\* ------------------------------------------------ forward port rejections

\* The text is an integer in 0..65535: digits, a '+' before them allowed.
IsPortText(text) ==
    IsDecimalPort(IF text # <<>> /\ text[1] = "+" THEN Tail(text) ELSE text)

\* The places of the ':' characters of a text.
Colons(text) == {i \in 1..Len(text) : text[i] = ":"}

\* The text before the first ':' and the text after it (the whole text for
\* both when there is no ':').
LocalPart(text) ==
    IF Colons(text) = {} THEN text
    ELSE SubSeq(text, 1, (CHOOSE i \in Colons(text) : \A j \in Colons(text) : i <= j) - 1)
ContainerPart(text) ==
    IF Colons(text) = {} THEN text
    ELSE SubSeq(text, (CHOOSE i \in Colons(text) : \A j \in Colons(text) : i <= j) + 1,
                Len(text))

\* C22: a forward-port string (not blank) is split on its first ':' only; it
\* is accepted exactly when the part before and the part after are integers in
\* 0..65535, so a part above 65535 and a string with a second ':' are
\* rejected; the error is a configuration error that names the side that
\* failed to parse, container or local, and carries the original string.
C22_PortParts ==
    (/\ fn_input.some /\ fn_input.fn = "try_from" /\ fn_output.some
     /\ fn_input.arg.kind = "String"
     /\ trim(fn_input.arg.value) # <<>>) =>
        LET value == fn_input.arg.value
            L == LocalPart(trim(value))
            C == ContainerPart(trim(value))
            port == fn_output.value
        IN  /\ port.kind = "Ok" <=> (IsPortText(L) /\ IsPortText(C))
            /\ Cardinality(Colons(value)) >= 2 => port.kind = "Err"
            /\ port.kind = "Err" =>
                  /\ port.error.kind = "Configuration"
                  /\ Carries(port.error.message, value)
                  /\ Carries(port.error.message,
                             <<IF IsPortText(C) THEN "local port" ELSE "container port">>)

C22_Witness ==
    /\ fn_input.some
    /\ fn_input.fn = "try_from"
    /\ fn_input.arg = [kind |-> "String", value |-> <<" ", "6", "6", "6", "6", "6">>]
    /\ fn_output.some
    /\ fn_output.value.kind = "Err"
    /\ Carries(fn_output.value.error.message,
               <<"container port", ": ", "number too large to fit in target type">>)

\* ------------------------------------------------------ resolve properties

\* resolve has been applied; its case and its result.
Resolved == fn_input.some /\ fn_input.fn = "resolve" /\ fn_output.some
ResolverOf == fn_input.arg.resolver
DocumentOf == fn_input.arg.file.document

\* The configuration file was found, read, parsed, validated and
\* deserialized: the document's fields are looked at.
DocumentAccepted ==
    /\ resolve_path(ResolverOf.source, fn_input.arg.files).kind = "Ok"
    /\ fn_input.arg.file.readable
    /\ fn_input.arg.file.parses
    /\ validate_against_schema(fn_input.arg.file.violations).kind = "Ok"
    /\ fn_input.arg.file.deserializes

\* The forward-port definition is a string that is blank, or whose part
\* before or after the first ':' is not a port number.
Malformed(def) ==
    /\ def.kind = "String"
    /\ \/ trim(def.value) = <<>>
       \/ ~IsPortText(LocalPart(trim(def.value)))
       \/ ~IsPortText(ContainerPart(trim(def.value)))

\* C21: when a document holds a malformed forward-port string, resolve
\* returns a configuration error and no ResolvedConfig; when the document got
\* as far as its forward ports, the error is that of the first malformed
\* string and carries the string (a blank one is shown as '').
C21_MalformedPortFails ==
    (Resolved /\ \E i \in 1..Len(DocumentOf.forward_ports) :
                    Malformed(DocumentOf.forward_ports[i])) =>
        LET ports == DocumentOf.forward_ports
            first == CHOOSE i \in 1..Len(ports) :
                         Malformed(ports[i]) /\ \A j \in 1..(i - 1) : ~Malformed(ports[j])
            error == fn_output.value.error
        IN  /\ fn_output.value.kind = "Err"
            /\ error.kind = "Configuration"
            /\ DocumentAccepted =>
                  /\ error.message[1] \in {"Invalid forward port value '",
                                            "Invalid forward port value '': value must not be empty"}
                  /\ trim(ports[first].value) # <<>> =>
                        Carries(error.message, <<"Invalid forward port value '">>
                                               \o ports[first].value \o <<"': ">>)
                  /\ trim(ports[first].value) = <<>> =>
                        error.message =
                            <<"Invalid forward port value '': value must not be empty">>

C21_Witness ==
    /\ Resolved
    /\ DocumentAccepted
    /\ DocumentOf.forward_ports = <<ForwardPortNumber(3000), ForwardPortString(<<"6", ":">>)>>
    /\ fn_output.value.kind = "Err"
    /\ Carries(fn_output.value.error.message, <<"6", ":">>)

\* The workspace root of the resolver: the workspace path, or the directory
\* of the explicit configuration file.
WorkspaceRoot ==
    CASE ResolverOf.source = Workspace(ProjectRoot) -> ProjectRoot
      [] ResolverOf.source = Workspace(<<"/">>) -> <<"/">>
      [] ResolverOf.source = ExplicitFile(ProjectRoot \o <<"/", "devcontainer.json">>) ->
             ProjectRoot
      [] ResolverOf.source = ExplicitFile(<<"devcontainer.json">>) -> <<>>

\* The final component of the workspace root, where it has one.
RootBasename == IF WorkspaceRoot = ProjectRoot THEN Some(<<"demo">>) ELSE None

\* The first character of the value that is not a blank is '/'.
ContainerAbsolute(value) ==
    \E i \in 1..Len(value) :
        value[i] = "/" /\ \A j \in 1..(i - 1) : value[j] \in {" ", "\n"}

\* The value with the two placeholders replaced by the workspace root and
\* by its final component (left as it is when the root has none).
Substituted(value) ==
    replace(IF RootBasename.some
            THEN replace(value, LocalWorkspaceFolderBasename, RootBasename.value)
            ELSE value,
            LocalWorkspaceFolder, WorkspaceRoot)

C25_NamePrecedence ==
    (Resolved /\ fn_output.value.kind = "Ok") =>
        LET overrides == ResolverOf.overrides
            outcome == fn_output.value.outcome
        IN  /\ outcome.project_name =
                  IF overrides.project_name.some THEN overrides.project_name.value
                  ELSE IF DocumentOf.name.some THEN DocumentOf.name.value
                  ELSE IF RootBasename.some THEN RootBasename.value
                  ELSE <<"devcontainer">>
            /\ outcome.image_reference =
                  IF overrides.image_reference.some THEN overrides.image_reference
                  ELSE DocumentOf.image

C25_Witness ==
    /\ Resolved
    /\ fn_output.value.kind = "Ok"
    /\ ResolverOf.overrides.project_name = Some(<<"override">>)
    /\ DocumentOf.name = Some(<<"original">>)
    /\ ResolverOf.overrides.image_reference = Some("override:image")
    /\ DocumentOf.image = Some("example:image")
    /\ fn_output.value.outcome.project_name = <<"override">>
    /\ fn_output.value.outcome.image_reference = Some("override:image")

\* C26: the project name of every ResolvedConfig is a non-empty string.
C26_ProjectNameNonEmpty ==
    (Resolved /\ fn_output.value.kind = "Ok") =>
        fn_output.value.outcome.project_name # <<>>

\* The host workspace folder when the document's value is left out of it.
HostWithoutDocument ==
    IF ResolverOf.overrides.workspace_folder.some
    THEN ResolverOf.overrides.workspace_folder.value
    ELSE WorkspaceRoot

\* A document value that counts as container-absolute is not used for the
\* host workspace folder and becomes, substituted, the container-side
\* folder, which is set for values that count as container-absolute only.
ContainerFolderRule(counts_as_absolute) ==
    (Resolved /\ fn_output.value.kind = "Ok") =>
        LET folder == DocumentOf.workspace_folder
            outcome == fn_output.value.outcome
        IN  /\ (folder.some /\ counts_as_absolute) =>
                  /\ outcome.workspace_folder = HostWithoutDocument
                  /\ outcome.container_workspace_folder = Some(Substituted(folder.value))
            /\ outcome.container_workspace_folder.some <=> (folder.some /\ counts_as_absolute)

OnlyRootConflicts(violations) ==
    \A i \in 1..Len(violations) :
        violations[i] = ValidationError("OneOfMultipleValid", "/oneOf",
                                        "valid under more than one schema")

\* C27: a document that was read and parsed and whose violations, if any,
\* are all conflicts of the root oneOf passes validation; a document with any
\* other violation is rejected with one configuration error, "Invalid
\* devcontainer.json: ", that lists the message of every violation.
C27_SchemaValidation ==
    (/\ Resolved
     /\ resolve_path(ResolverOf.source, fn_input.arg.files).kind = "Ok"
     /\ fn_input.arg.file.readable
     /\ fn_input.arg.file.parses) =>
        LET violations == fn_input.arg.file.violations
            returned == fn_output.value
        IN  IF OnlyRootConflicts(violations)
            THEN \/ returned.kind = "Ok"
                 \/ returned.error.message[1] # "Invalid devcontainer.json: "
            ELSE /\ returned.kind = "Err"
                 /\ returned.error.kind = "Configuration"
                 /\ returned.error.message[1] = "Invalid devcontainer.json: "
                 /\ \A i \in 1..Len(violations) :
                       contains(returned.error.message, violations[i].message)

C27_Witness ==
    /\ Resolved
    /\ Len(fn_input.arg.file.violations) = 2
    /\ OnlyRootConflicts(fn_input.arg.file.violations)
    /\ fn_output.value.kind = "Ok"

\* ------------------------------------------------- build_image properties

\* The entry of the commands log is `docker image inspect` of the reference.
IsInspect(entry, reference) ==
    /\ Len(entry.argv) = 3
    /\ entry.argv[1] = "image" /\ entry.argv[2] = "inspect" /\ entry.argv[3] = reference

\* The entry of the commands log is `docker pull`.
IsPull(entry) == Len(entry.argv) = 2 /\ entry.argv[1] = "pull"

\* The engine answered that it holds no such image.
ImageAbsent(entry) ==
    /\ entry.output.spawned
    /\ entry.output.code # 0
    /\ Carries(entry.output.stderr, <<"No such image">>)

\* C29: build_image with a direct image reference issues `image inspect`
\* first and issues `pull` only when the image is absent locally: no pull
\* follows an inspect that succeeded or an inspect that failed for another
\* reason than absence, and every success returns the prepared reference.
C29_PullOnlyWhenAbsent ==
    (d_op = "build_image" /\ preparation.image.kind = "Reference") =>
        LET reference == preparation.image.reference
        IN  /\ commands # <<>> => IsInspect(commands[1], reference)
            /\ \A i \in 1..Len(commands) :
                  IsPull(commands[i]) =>
                      /\ i = 2
                      /\ commands[i].argv[2] = reference
                      /\ ImageAbsent(commands[1])
            /\ (d_pc = "idle" /\ d_result.kind = "Ok") => d_result.outcome = reference

\* ------------------------------------------------ DockerCli::run properties

\* The deadline a caller sets for a call, in ticks of the clock.
Deadline == 2

\* C28: every external-process call can be bounded by a caller-provided
\* deadline: once the deadline has passed the process is no longer in
\* flight (it was terminated and the call returned a provider error), so no
\* call is still waiting for its process after the deadline.
C28_DeadlineBoundsCall ==
    (d_op = "run" /\ d_pc = "waiting") => d_idx <= Deadline

\* --------------------------------------------- executor properties, part 2

\* The number of commands of a hook's definition in the config.
CommandCount(hook) ==
    LET command == hook_command(config, hook)
    IN  IF ~command.some THEN 0
        ELSE IF command.value.kind = "Single" THEN 1
        ELSE Cardinality(DOMAIN command.value.commands)

\* C33: when execute is given the plan for_up built from the same config,
\* a hook planned as Execute always has a command, so handle_hook never
\* takes its branch for an Execute action without a resolved command, and a
\* successful run has made as many exec calls as the hooks planned as
\* Execute have commands.
C33_ExecuteHasCommand ==
    Planned =>
        /\ \A hook \in Hooks :
              /\ PlannedAction(hook).kind = "Execute" => hook_command(config, hook).some
              /\ pc = RunPc(hook) =>
                    ~execute_without_command(PlannedAction(hook), hook_command(config, hook))
        /\ result.kind = "Ok" =>
              \A hook \in Hooks :
                  Cardinality(ExecIndices(hook)) =
                      (IF PlannedAction(hook).kind = "Execute" THEN CommandCount(hook) ELSE 0)

C33_Witness ==
    /\ result.kind = "Ok"
    /\ PlannedAction("PostCreate").kind = "Execute"
    /\ PlannedAction("PostAttach").kind = "Skip"
    /\ config.post_attach_command.some
    /\ CommandCount("PostCreate") = 2
    /\ Cardinality(ExecIndices("PostCreate")) = 2

\* The plan holds a step of the phase.
HasStep(phase) == \E i \in 1..Len(plan) : plan[i].phase = phase

\* C34: whatever steps the plan contains, execute performs prepare,
\* ensure_networks, ensure_volumes, build_image, create_container and
\* start_container and records Resolve, Build, Create, Start; PostCreate and
\* PostAttach are handled and recorded only if the plan has a step for them;
\* with an empty plan a successful run records exactly Resolve, Build,
\* Create, Start and issues no exec.
C34_PlanIndependentProvisioning ==
    /\ \A i \in 1..Len(calls) :
          i <= Len(ProvisioningOrder) => calls[i].op = ProvisioningOrder[i]
    /\ \A hook \in Hooks :
          (hook \in Range(executed_phases) \/ ExecIndices(hook) # {}
             \/ pc = RunPc(hook)) => HasStep(hook)
    /\ result.kind = "Ok" =>
          /\ Len(calls) >= Len(ProvisioningOrder)
          /\ \A i \in 1..Len(ProvisioningOrder) : Succeeded(i)
          /\ IsPrefix(<<"Resolve", "Build", "Create", "Start">>, executed_phases)
          /\ executed_phases =
                SelectSeq(LifecyclePhases,
                          LAMBDA phase : phase \notin Hooks \/ HasStep(phase))
          /\ plan = <<>> =>
                /\ executed_phases = <<"Resolve", "Build", "Create", "Start">>
                /\ \A i \in 1..Len(calls) : calls[i].op # "exec"

C34_Witness ==
    /\ result.kind = "Ok"
    /\ plan = <<>>
    /\ config.post_create_command.some
    /\ config.post_attach_command.some
    /\ ~options.skip_post_create.some
    /\ Len(calls) = 6

\* ------------------------------------- container operation properties, part 2

\* The last command of the log, and whether the engine printed anything but
\* white space on its stdout.
LastCommand == commands[Len(commands)]
PrintedNothing(output) == \A i \in 1..Len(output.stdout) : output.stdout[i] \in Whitespace

\* A RunningContainer such as create_container returns for the preparation.
FromCreate(handle) == handle.name = Some(preparation.container_name)

\* C35: every RunningContainer that create_container returns carries the
\* prepared container name, and its id is absent exactly when the engine
\* printed nothing; start_container and exec called with such a container
\* never fail with "Container has no identifier".
C35_CreatedContainerNamed ==
    /\ (d_op = "create_container" /\ d_pc = "idle" /\ d_result.kind = "Ok") =>
          /\ d_result.outcome.name = Some(preparation.container_name)
          /\ ~d_result.outcome.id.some <=> PrintedNothing(LastCommand.output)
    /\ (d_op \in {"start_container", "exec"} /\ FromCreate(d_args.container)) =>
          /\ d_result # Err(ProviderError(<<"Container has no identifier">>))
          /\ \A i \in 1..Len(commands) :
                commands[i].argv[2] = preparation.container_name

C35_Witness ==
    /\ d_op = "start_container"
    /\ d_pc = "idle"
    /\ d_result.kind = "Ok"
    /\ d_args.container = [id |-> None, name |-> Some(preparation.container_name)]
    /\ \E c \in containers : c.id = "1" /\ c.name = preparation.container_name

\* create_container has returned after its removal command was run by the
\* engine.
ReturnedAfterRemoval ==
    /\ d_op = "create_container"
    /\ d_pc = "idle"
    /\ commands # <<>>
    /\ commands[1].output.spawned

\* The create command was issued after the removal.
CreateIssued == Len(commands) = 2 /\ commands[2].argv[1] = "create"

\* create_container returned an error for a failure to locate or spawn the
\* engine, or for a create that exited non-zero.
SpawnOrCreateFailure ==
    \/ commands = <<>> /\ d_result.error = locate_error
    \/ /\ commands # <<>>
       /\ ~LastCommand.output.spawned
       /\ d_result.error = spawn_error(LastCommand.argv)
    \/ /\ CreateIssued
       /\ commands[2].output.spawned
       /\ commands[2].output.code # 0
       /\ d_result.error = ensure_success_error(commands[2].argv, commands[2].output)

\* The host workspace path could not be represented as UTF-8.
PathFailure == d_result = Err(path_error(config.workspace_folder))

\* C36 as claimed: whatever the removal returns, the create command is still
\* issued, and only a failure to spawn the engine or a failure of the create
\* itself makes create_container return an error.
C36_Original ==
    /\ ReturnedAfterRemoval => CreateIssued
    /\ (d_op = "create_container" /\ d_pc = "idle" /\ d_result.kind = "Err") =>
          SpawnOrCreateFailure

\* C36: a failure of the stale-container removal never aborts
\* create_container: whatever non-zero exit and stderr the removal returns,
\* the create command is still issued unless the host workspace path cannot
\* be represented as UTF-8, and only a failure to locate or spawn the
\* engine, such a path, or a failure of the create itself makes
\* create_container return an error.
C36_RemovalNeverAborts ==
    /\ ReturnedAfterRemoval => (CreateIssued \/ PathFailure)
    /\ (d_op = "create_container" /\ d_pc = "idle" /\ d_result.kind = "Err") =>
          (SpawnOrCreateFailure \/ (PathFailure /\ Len(commands) = 1))

C36_Witness ==
    /\ ReturnedAfterRemoval
    /\ commands[1].output = DaemonFailure
    /\ CreateIssued
    /\ d_result.kind = "Ok"

\* ------------------------------------------------ create command properties

\* The argument that follows a flag of the create command.
ArgumentOf(args, position, flag) ==
    IF args[position] = flag THEN Some(args[position + 1]) ELSE None

\* C37: the container's working directory and the destination of the
\* host-workspace bind mount are /workspaces/<project slug> whatever the
\* config's container-side workspace folder: two configs that differ only
\* in that folder produce identical create commands.
C37_MountIgnoresContainerFolder ==
    (fn_input.some /\ fn_input.fn = "create_command" /\ fn_output.some
       /\ fn_output.value.kind = "Ok") =>
        LET cfg == fn_input.arg
            args == fn_output.value.outcome
            mount_path == <<"/workspaces/">> \o sanitize_name(cfg.project_name)
        IN  /\ ArgumentOf(args, 10, "--workdir") = Some(mount_path)
            /\ ArgumentOf(args, 12, "--mount")
                  = Some(<<"type=bind,src=", cfg.workspace_folder, ",dst=", mount_path>>)
            /\ \A folder \in ContainerFolderValues :
                  create_command([cfg EXCEPT !.container_workspace_folder = folder])
                    = fn_output.value

C37_Witness ==
    /\ fn_input.some
    /\ fn_input.fn = "create_command"
    /\ fn_input.arg.container_workspace_folder = Some(<<"/", "srv", "/", "app">>)
    /\ fn_input.arg.project_name = <<"A", "b", " ", "7">>
    /\ fn_output.some
    /\ fn_output.value.kind = "Ok"
    /\ fn_output.value.outcome[11] = <<"/workspaces/", "a", "b", "-", "7">>

\* ------------------------------------------------- down command properties

\* The provider operations that have returned to the down command, in order.
ReturnedOps == [i \in 1..Len(returns) |-> returns[i].op]

\* stop_container has returned an error to the down command.
StopFailed == Len(returns) >= 2 /\ returns[2].op = "stop_container" /\ ~returns[2].ok

\* Where the down command stands in each state: no provider operation before
\* prepare returned Ok, stop_container with the prepared name, cleanup only
\* after stop_container returned Ok, nothing after a failure.
DownOrdered ==
    /\ IsPrefix(ReturnedOps, <<"prepare", "stop_container", "cleanup">>)
    /\ \A i \in 1..(Len(returns) - 1) : returns[i].ok
    /\ d_op \in {"stop_container", "cleanup"} => (returns # <<>> /\ returns[1].ok)
    /\ d_op = "stop_container" =>
          d_args.container = [id |-> None, name |-> Some(preparation.container_name)]
    /\ d_op = "cleanup" => (Len(returns) >= 2 /\ returns[2].ok)
    /\ StopFailed =>
          /\ d_op = "stop_container"
          /\ pc = "failed"
          /\ result = d_result
          /\ result.kind = "Err"

\* A step that changes the engine's containers, networks or volumes is a
\* step of cleanup or a stop command that the engine carried out.
TouchedByCleanupOnly ==
    (containers' # containers \/ engine' # engine) =>
        \/ d_op = "cleanup"
        \/ /\ d_op = "stop_container"
           /\ success(commands'[Len(commands')].output)
           /\ d_result'.kind = "Ok"

\* C39: the down command invokes prepare, then stop_container, then cleanup,
\* in that order; cleanup is invoked only if stop_container returned
\* success, so a stop failure that is not benign ends the command and leaves
\* the container, the networks and the volumes untouched.
C39_DownOrder ==
    /\ []DownOrdered
    /\ [][TouchedByCleanupOnly /\ (pc \in {"failed", "done"} => UNCHANGED vars)]_vars

C39_Witness ==
    /\ StopFailed
    /\ commands # <<>>
    /\ commands[1].output = DaemonFailure
    /\ \E c \in containers : c.name = preparation.container_name /\ c.running
    /\ engine.network # {}
    /\ engine.volume # {}

\* ------------------------------------------------- exec command properties

\* The position of the user's command among the provider calls.
UserExec == Len(ProvisioningOrder) + 1

\* C38: the exec command fails with a configuration error before any
\* provider operation when its command is empty; otherwise it runs the full
\* lifecycle with both hooks skipped, so no hook command is exec'd and
\* create_container (the forced removal and the create) is part of it, and
\* issues the user's command as the only exec, strictly after the lifecycle
\* succeeded; a non-zero exit of that command is returned as a provider
\* error.
C38_ExecCommand ==
    d_args.op = "exec" =>
    /\ d_args.command = <<>> =>
          /\ calls = <<>>
          /\ pc \in {"exec_command", "failed"}
          /\ pc = "failed" =>
                result = Err(ConfigurationError(
                               <<"devcontainer exec requires a command to run">>))
    /\ plan # <<>> =>
          \A hook \in Hooks :
              /\ Skipped(hook)
              /\ PlannedAction(hook).reason = "exec command requested"
    /\ \A hook \in Hooks : ExecIndices(hook) = {}
    /\ \A i \in 1..Len(calls) :
          IF i <= Len(ProvisioningOrder)
          THEN calls[i].op = ProvisioningOrder[i]
          ELSE /\ i = UserExec
               /\ calls[i].op = "exec"
               /\ calls[i].argv = d_args.command
               /\ \A j \in 1..(i - 1) : Succeeded(j)
               /\ executed_phases = LifecyclePhases
    /\ (Len(returns) = UserExec /\ returns[UserExec].ok) =>
          IF returns[UserExec].exit_code # 0
          THEN /\ pc = "failed"
               /\ result = Err(ProviderError(<<"Command exited with status ",
                                               ToString(returns[UserExec].exit_code)>>))
          ELSE pc = "exited" /\ result.kind = "Ok"
    /\ pc = "exited" => (Len(returns) = UserExec /\ Succeeded(UserExec))

C38_Witness ==
    /\ d_args.op = "exec"
    /\ pc = "failed"
    /\ Len(returns) = UserExec
    /\ returns[UserExec].ok
    /\ returns[UserExec].exit_code = -1
    /\ config.post_create_command.some
    /\ config.post_attach_command.some

\* ------------------------------------------------------ two-run properties

\* The run's last docker command, a start or an exec of its container after
\* its own create_container succeeded, found no such container.
ContainerGone ==
    /\ d_op \in {"start_container", "exec"}
    /\ commands # <<>>
    /\ LastCommand.output.spawned
    /\ contains(LastCommand.output.stderr, "No such container")

\* The other run's create_container has force-removed a container: its
\* `container rm --force` succeeded, or it is already past create_container.
OtherRunRemoved ==
    \/ previous.d_op \in {"start_container", "exec"}
    \/ /\ previous.d_op = "create_container"
       /\ previous.commands # <<>>
       /\ previous.commands[1].output.spawned
       /\ success(previous.commands[1].output)

SameSlug == previous.preparation.project_slug = preparation.project_slug

\* C31: two interleaved runs of the same slug interfere through the shared
\* container name: a run finds the container it created gone, and its
\* start_container fails or its hook's exec exits non-zero, exactly when the
\* other run, of the same slug, has force-removed it in its own
\* create_container; the state is reachable, nothing prevents it.
C31_SameSlugInterference ==
    ContainerGone =>
        /\ SameSlug
        /\ previous.preparation.container_name = preparation.container_name
        /\ OtherRunRemoved
        /\ d_op = "start_container" => d_result.kind = "Err"
        /\ d_op = "exec" => (d_result.kind = "Ok" /\ d_result.outcome.exit_code # 0)

C31_Witness ==
    /\ ContainerGone
    /\ d_op = "start_container"
    /\ d_result.kind = "Err"
    /\ previous.d_op = "create_container"
    /\ OtherRunRemoved
    /\ SameSlug

\* The resources of a kind a preparation makes its run the owner of.
ResourceKinds == {"container", "network", "volume", "image"}
Owned(prep, kind) ==
    CASE kind = "container" -> {prep.container_name}
      [] kind = "network" -> {prep.networks[i] : i \in 1..Len(prep.networks)}
      [] kind = "volume" -> {prep.volumes[i].name : i \in 1..Len(prep.volumes)}
      [] kind = "image" -> IF prep.image.kind = "Build" THEN {prep.image.tag} ELSE {}

\* The resources of a kind a docker command names.
NamedBy(argv, kind) ==
    IF argv[1] = "create"
    THEN LET network == ArgumentOf(argv, 6, "--network")
             base == IF network.some THEN 7 ELSE 5
         IN  CASE kind = "container" -> {argv[3], argv[5]}
               [] kind = "network" -> IF network.some THEN {network.value} ELSE {}
               [] kind = "volume" ->
                      {argv[i][2] : i \in {j \in (base + 8)..(Len(argv) - 3) :
                                              (j - base) % 2 = 0}}
               [] kind = "image" -> {argv[Len(argv) - 2]}
    ELSE IF kind # "container" THEN {}
    ELSE IF argv[1] = "container" THEN {argv[4]}
    ELSE {argv[2]}

NamesOthers(kind) ==
    \E i \in 1..Len(commands) :
        NamedBy(commands[i].argv, kind) \cap Owned(previous.preparation, kind) # {}

\* The statement as first made: whatever the configs, no command of a run
\* names a container, network, volume or image tag of a run of another slug.
C32_Original ==
    ~SameSlug => \A kind \in ResourceKinds : ~NamesOthers(kind)

\* C32: for two interleaved runs whose project names sanitize to different
\* slugs, no docker command of one names a container, network or volume
\* owned by the other, and it names an image tag owned by the other only
\* when its own config declares that tag as its image reference.
C32_NamesOwnResources ==
    ~SameSlug =>
        /\ \A kind \in ResourceKinds \ {"image"} : ~NamesOthers(kind)
        /\ NamesOthers("image") =>
              /\ config.image_reference.some
              /\ config.image_reference.value \in Owned(previous.preparation, "image")

C32_Witness ==
    /\ ~SameSlug
    /\ d_op = "create_container"
    /\ d_result.kind = "Ok"
    /\ Len(commands) = 2
    /\ previous.d_op = "exec"
    /\ previous.d_result.kind = "Ok"
    /\ previous.d_result.outcome.exit_code = 0
    /\ Cardinality(containers) = 2

====
